---- MODULE Spec2Model ----
(***************************************************************************)
(* A model of the DNA strand displacement rewriting rules of               *)
(* stocal/examples/dsd.py.  Complexes are strings; here a string is a      *)
(* sequence of one-character strings, indexed from 0 as in Python through  *)
(* the slice operators below.  The regular expressions of dsd.py are       *)
(* transcribed as syntax trees and run by a backtracking matcher with the  *)
(* priorities of Python's re module (leftmost start, greedy and lazy       *)
(* repetition, optional groups, back references, look-around).             *)
(***************************************************************************)
EXTENDS Bags, Integers, Sequences, FiniteSets, TLC

\* ------------------------------------------------------------------------
\* Python strings
\* ------------------------------------------------------------------------
Min(a, b) == IF a < b THEN a ELSE b
Max(a, b) == IF a > b THEN a ELSE b

\* An index of a slice as Python normalises it: negative counts from the end,
\* and the result is clipped to 0 .. Len(s).
PyIndex(s, i) == IF i < 0 THEN Max(Len(s) + i, 0) ELSE Min(i, Len(s))

\* s[a:b]
PySlice(s, a, b) ==
    LET lo == PyIndex(s, a)
        hi == PyIndex(s, b)
    IN  IF lo >= hi THEN <<>> ELSE SubSeq(s, lo + 1, hi)

\* s[a:]
PyFrom(s, a) == PySlice(s, a, Len(s))

\* s[:b]
PyTo(s, b) == PySlice(s, 0, b)

\* The characters \w matches, among those the complexes of the model use.
WordChars == {"A", "B", "C", "D", "L", "R", "S", "T", "X", "Y", "1", "2"}

\* The characters \s matches.
SpaceChars == {" "}

\* ------------------------------------------------------------------------
\* Regular expressions: a pattern is a sequence of nodes.
\* ------------------------------------------------------------------------
In(S) == <<"in", S>>                 \* [...]  one character of S
NotIn(S) == <<"notin", S>>           \* [^...] one character outside S
Lit(c) == <<"in", {c}>>              \* one literal character
Grp(n, p) == <<"grp", n, p>>         \* ( p ) as capturing group n
Opt(p) == <<"opt", p>>               \* (?: p )?  greedy
Lazy(c) == <<"lazy", c>>             \* c*?  for a one-character node c
Star(c) == <<"star", c>>             \* c*   for a one-character node c
Alt(p, q) == <<"alt", p, q>>         \* p | q
Ref(n) == <<"ref", n>>               \* \n
Ahead(p) == <<"ahead", p>>           \* (?= p )
NotAhead(p) == <<"nahead", p>>       \* (?! p )
Behind(p, w) == <<"behind", p, w>>   \* (?<= p ), p of fixed width w
Bol == <<"bol">>                     \* ^
Eol == <<"eol">>                     \* $

W == In(WordChars)                   \* \w
NonW == NotIn(WordChars)             \* \W
Sp == In(SpaceChars)                 \* \s

\* c+ for a one-character node c
Plus(c) == <<c, Star(c)>>

\* The literal text t (a sequence of characters)
Text(t) == [i \in 1..Len(t) |-> Lit(t[i])]

\* Number of capture groups any pattern of dsd.py has (re_lone_upper_1: 12).
NGroups == 12

\* The span of a group that took no part in the match: start() and end()
\* are -1 and group() is None.
NoSpan == <<-1, -1>>

NoCaps == [i \in 1..NGroups |-> NoSpan]

NoMatch == [ok |-> FALSE, b |-> -1, e |-> -1, g |-> NoCaps]

Hit(s, pos, c) ==
    /\ pos < Len(s)
    /\ IF c[1] = "in" THEN s[pos + 1] \in c[2] ELSE s[pos + 1] \notin c[2]

\* The least element of a non-empty set of integers, and the greatest
Least(S) == CHOOSE x \in S : \A y \in S : x <= y
Greatest(S) == CHOOSE x \in S : \A y \in S : x >= y

\* Where the longest run of characters of the one-character node c that
\* starts at offset pos ends.
RunEnd(s, pos, c) == Least({j \in pos..Len(s) : ~Hit(s, j, c)})

\* Run the nodes of todo on s from offset pos; caps holds the groups closed
\* so far.  The first alternative in Python's priority order that lets the
\* whole of todo match is the result.  A repetition tries the ends of its
\* run shortest first when lazy and longest first when greedy.
RECURSIVE Run(_, _, _, _)
Run(s, todo, pos, caps) ==
    IF todo = <<>> THEN [ok |-> TRUE, b |-> -1, e |-> pos, g |-> caps]
    ELSE
    LET n == Head(todo)
        rest == Tail(todo)
        t == n[1]
    IN  CASE t \in {"in", "notin"} ->
               IF Hit(s, pos, n) THEN Run(s, rest, pos + 1, caps) ELSE NoMatch
          [] t = "grp" ->
               Run(s, n[3] \o <<<<"close", n[2], pos>>>> \o rest, pos, caps)
          [] t = "close" ->
               Run(s, rest, pos, [caps EXCEPT ![n[2]] = <<n[3], pos>>])
          [] t = "opt" ->
               LET m == Run(s, n[2] \o rest, pos, caps)
               IN  IF m.ok THEN m ELSE Run(s, rest, pos, caps)
          [] t \in {"lazy", "star"} ->
               LET tries == {<<j, Run(s, rest, j, caps)>> : j \in pos..RunEnd(s, pos, n[2])}
                   good == {x \in tries : x[2].ok}
                   ends == {x[1] : x \in good}
                   end == IF t = "lazy" THEN Least(ends) ELSE Greatest(ends)
               IN  IF good = {} THEN NoMatch
                   ELSE (CHOOSE x \in good : x[1] = end)[2]
          [] t = "alt" ->
               LET m == Run(s, n[2] \o rest, pos, caps)
               IN  IF m.ok THEN m ELSE Run(s, n[3] \o rest, pos, caps)
          [] t = "ref" ->
               LET sp == caps[n[2]]
                   w == sp[2] - sp[1]
               IN  IF sp # NoSpan /\ pos + w <= Len(s)
                      /\ PySlice(s, pos, pos + w) = PySlice(s, sp[1], sp[2])
                   THEN Run(s, rest, pos + w, caps)
                   ELSE NoMatch
          [] t = "ahead" ->
               IF Run(s, n[2], pos, caps).ok THEN Run(s, rest, pos, caps) ELSE NoMatch
          [] t = "nahead" ->
               IF Run(s, n[2], pos, caps).ok THEN NoMatch ELSE Run(s, rest, pos, caps)
          [] t = "behind" ->
               IF pos >= n[3] /\ Run(s, n[2], pos - n[3], caps).ok
               THEN Run(s, rest, pos, caps)
               ELSE NoMatch
          [] t = "bol" -> IF pos = 0 THEN Run(s, rest, pos, caps) ELSE NoMatch
          [] t = "eol" -> IF pos = Len(s) THEN Run(s, rest, pos, caps) ELSE NoMatch

\* pattern.match at offset pos
MatchAt(s, p, pos) == [Run(s, p, pos, NoCaps) EXCEPT !.b = pos]

\* The matches of p on s, one for each offset where p matches
MatchesOf(p, s) == {m \in {MatchAt(s, p, pos) : pos \in 0..Len(s)} : m.ok}

\* Among the matches ms, the leftmost that starts at offset pos or later
FirstFrom(ms, pos) ==
    LET later == {m \in ms : m.b >= pos}
    IN  IF later = {} THEN NoMatch
        ELSE CHOOSE m \in later : \A x \in later : m.b <= x.b

\* re.search(p, s): the leftmost match
Search(p, s) == FirstFrom(MatchesOf(p, s), 0)

\* list(re.finditer(p, s)): the successive non-overlapping matches.  After an
\* empty match the scan goes on one character further.
RECURSIVE FindFrom(_, _)
FindFrom(ms, pos) ==
    LET m == FirstFrom(ms, pos)
    IN  IF ~m.ok THEN <<>>
        ELSE <<m>> \o FindFrom(ms, IF m.e = m.b THEN m.e + 1 ELSE m.e)

FindIter(p, s) == FindFrom(MatchesOf(p, s), 0)

\* re.sub(p, repl, s) for a replacement text without group references: the
\* text between the matches ms[n], ms[n + 1], ... of s, with repl for each.
RECURSIVE SubFrom(_, _, _, _, _)
SubFrom(s, ms, repl, n, pos) ==
    IF n > Len(ms) THEN PyFrom(s, pos)
    ELSE PySlice(s, pos, ms[n].b) \o repl \o SubFrom(s, ms, repl, n + 1, ms[n].e)

Sub(p, repl, s) == SubFrom(s, FindIter(p, s), repl, 1, 0)

\* Accessors of a match object m on the string s
Start(m, n) == IF n = 0 THEN m.b ELSE m.g[n][1]
End(m, n) == IF n = 0 THEN m.e ELSE m.g[n][2]
IsNone(m, n) == m.g[n] = NoSpan
Group(s, m, n) == IF n = 0 THEN PySlice(s, m.b, m.e) ELSE PySlice(s, m.g[n][1], m.g[n][2])

\* ------------------------------------------------------------------------
\* The patterns of dsd.py.  A pattern that dsd.py splices into others with
\* an f-string takes the number of its capture group as parameter.
\* ------------------------------------------------------------------------
\* (\[[^<{\[\]}>]*?\])
re_double(n) == <<Grp(n, <<Lit("["), Lazy(NotIn({"<", "{", "[", "]", "}", ">"})), Lit("]")>>)>>

\* (<[^<\[{]*?>)
re_upper(n) == <<Grp(n, <<Lit("<"), Lazy(NotIn({"<", "[", "{"})), Lit(">")>>)>>

\* ({[^<\[{]*?\})
re_lower(n) == <<Grp(n, <<Lit("{"), Lazy(NotIn({"<", "[", "{"})), Lit("}")>>)>>

\* (?:\[\W*?(\w)(?:\^\W*?\]))
re_short_double_th ==
    <<Lit("["), Lazy(NonW), Grp(1, <<W>>), Lit("^"), Lazy(NonW), Lit("]")>>

\* lower? upper? double upper? lower?  with groups b+1 .. b+5
re_gate_at(b) ==
    <<Opt(re_lower(b + 1)), Opt(re_upper(b + 2))>> \o re_double(b + 3) \o
    <<Opt(re_upper(b + 4)), Opt(re_lower(b + 5))>>

re_gate == re_gate_at(0)

\* (\w)(?=\^)(?=[^<>{}]*])
re_double_lab ==
    <<Grp(1, <<W>>), Ahead(<<Lit("^")>>),
      Ahead(<<Star(NotIn({"<", ">", "{", "}"})), Lit("]")>>)>>

\* (\w)(?=\^)(?=[^<>]*>)
re_upper_lab ==
    <<Grp(1, <<W>>), Ahead(<<Lit("^")>>), Ahead(<<Star(NotIn({"<", ">"})), Lit(">")>>)>>

\* (\w)(?=\^\*)(?=[^{}]*})
re_lower_lab ==
    <<Grp(1, <<W>>), Ahead(<<Lit("^"), Lit("*")>>),
      Ahead(<<Star(NotIn({"{", "}"})), Lit("}")>>)>>

\* [<\[{]
re_open == <<In({"<", "[", "{"})>>

\* ([>\]}])
re_close == <<Grp(1, <<In({">", "]", "}"})>>)>>

\* (<(?:\s)*>)|({(?:\s)*})|(\[(?:\s)*])
re_empty ==
    <<Alt(<<Grp(1, <<Lit("<"), Star(Sp), Lit(">")>>)>>,
          <<Alt(<<Grp(2, <<Lit("{"), Star(Sp), Lit("}")>>)>>,
                <<Grp(3, <<Lit("["), Star(Sp), Lit("]")>>)>>)>>)>>

\* (\s{2,})
re_large_spaces == <<Grp(1, <<Sp, Sp, Star(Sp)>>)>>

\* (?<=[:>}\]<{\[])(\s+)|(\s+)(?=[:>\]}])
re_spaces ==
    <<Alt(<<Behind(<<In({":", ">", "}", "]", "<", "{", "["})>>, 1), Grp(1, Plus(Sp))>>,
          <<Grp(2, Plus(Sp)), Ahead(<<In({":", ">", "]", "}"})>>)>>)>>

\* ^upper::gate|(?<=::)upper::gate
re_lone_upper_1 ==
    <<Alt(<<Bol>> \o re_upper(1) \o Text(<<":", ":">>) \o re_gate_at(1),
          <<Behind(Text(<<":", ":">>), 2)>> \o re_upper(7) \o Text(<<":", ":">>)
              \o re_gate_at(7))>>

\* gate::(upper)$
re_lone_upper_2 ==
    re_gate_at(0) \o Text(<<":", ":">>) \o <<Grp(6, re_upper(7)), Eol>>

\* ^lower:gate|(?<=[^:]:)lower:gate
re_lone_lower_1 ==
    <<Alt(<<Bol>> \o re_lower(1) \o <<Lit(":")>> \o re_gate_at(1),
          <<Behind(<<NotIn({":"}), Lit(":")>>, 2)>> \o re_lower(7) \o <<Lit(":")>>
              \o re_gate_at(7))>>

\* gate:lower$
re_lone_lower_2 == re_gate_at(0) \o <<Lit(":")>> \o re_lower(6) \o <<Eol>>

\* {([^}]*?)(\w+)\^\*\s*}<([^>]*)(\2)\^\s*>
re_pre_cover ==
    <<Lit("{"), Grp(1, <<Lazy(NotIn({"}"}))>>), Grp(2, Plus(W)), Lit("^"), Lit("*"),
      Star(Sp), Lit("}"), Lit("<"), Grp(3, <<Star(NotIn({">"}))>>), Grp(4, <<Ref(2)>>),
      Lit("^"), Star(Sp), Lit(">")>>

\* <(\w+)\^\s*([^>]*)>(:?){(\1)\^\*\s*([^}]*)}|(\w+)\^\*([^}]*)}::lower?<(\6)\^\s*([^>]*)>
re_post_cover ==
    <<Alt(<<Lit("<"), Grp(1, Plus(W)), Lit("^"), Star(Sp), Grp(2, <<Star(NotIn({">"}))>>),
            Lit(">"), Grp(3, <<Opt(<<Lit(":")>>)>>), Lit("{"), Grp(4, <<Ref(1)>>),
            Lit("^"), Lit("*"), Star(Sp), Grp(5, <<Star(NotIn({"}"}))>>), Lit("}")>>,
          <<Grp(6, Plus(W)), Lit("^"), Lit("*"), Grp(7, <<Star(NotIn({"}"}))>>), Lit("}"),
            Lit(":"), Lit(":"), Opt(re_lower(8)), Lit("<"), Grp(9, <<Ref(6)>>), Lit("^"),
            Star(Sp), Grp(10, <<Star(NotIn({">"}))>>), Lit(">")>>)>>

\* double(<(\w+)[^<>:]*?>):upper?(\[(\3)(?!\])[^\]]*?\])
re_upper_migrate ==
    re_double(1) \o
    <<Grp(2, <<Lit("<"), Grp(3, Plus(W)), Lazy(NotIn({"<", ">", ":"})), Lit(">")>>),
      Lit(":"), Opt(re_upper(4)),
      Grp(5, <<Lit("["), Grp(6, <<Ref(3)>>), NotAhead(<<Lit("]")>>),
               Lazy(NotIn({"]"})), Lit("]")>>)>>

\* double({(\w+)[^{}:]*?})::lower?(\[(\3)(?!\])[^\]]*?\])
re_lower_migrate ==
    re_double(1) \o
    <<Grp(2, <<Lit("{"), Grp(3, Plus(W)), Lazy(NotIn({"{", "}", ":"})), Lit("}")>>),
      Lit(":"), Lit(":"), Opt(re_lower(4)),
      Grp(5, <<Lit("["), Grp(6, <<Ref(3)>>), NotAhead(<<Lit("]")>>),
               Lazy(NotIn({"]"})), Lit("]")>>)>>

\* (\[[^\]]*(?<=\s)(\w+)\])upper?:(<[^<>:]*?(\2)>)double
re_upper_migrate_r ==
    <<Grp(1, <<Lit("["), Star(NotIn({"]"})), Behind(<<Sp>>, 1), Grp(2, Plus(W)), Lit("]")>>),
      Opt(re_upper(3)), Lit(":"),
      Grp(4, <<Lit("<"), Lazy(NotIn({"<", ">", ":"})), Grp(5, <<Ref(2)>>), Lit(">")>>)>>
    \o re_double(6)

\* (\[[^<>]*(?<=\s)(\w+)\])lower?::({[^<>:]*?(\2)})double
re_lower_migrate_r ==
    <<Grp(1, <<Lit("["), Star(NotIn({"<", ">"})), Behind(<<Sp>>, 1), Grp(2, Plus(W)), Lit("]")>>),
      Opt(re_lower(3)), Lit(":"), Lit(":"),
      Grp(4, <<Lit("{"), Lazy(NotIn({"<", ">", ":"})), Grp(5, <<Ref(2)>>), Lit("}")>>)>>
    \o re_double(6)

\* double<(\w+)([^<>:]*?)>:upper?\[(\2)\]upper?lower?
re_displace_upper ==
    re_double(1) \o
    <<Lit("<"), Grp(2, Plus(W)), Grp(3, <<Lazy(NotIn({"<", ">", ":"}))>>), Lit(">"), Lit(":"),
      Opt(re_upper(4)), Lit("["), Grp(5, <<Ref(2)>>), Lit("]"),
      Opt(re_upper(6)), Opt(re_lower(7))>>

\* double{(\w+)([^{}:]*?)}::lower?\[(\2)\]upper?lower?
re_displace_lower ==
    re_double(1) \o
    <<Lit("{"), Grp(2, Plus(W)), Grp(3, <<Lazy(NotIn({"{", "}", ":"}))>>), Lit("}"),
      Lit(":"), Lit(":"),
      Opt(re_lower(4)), Lit("["), Grp(5, <<Ref(2)>>), Lit("]"),
      Opt(re_upper(6)), Opt(re_lower(7))>>

\* lower?upper?\[(\w+)\]upper?:<([^<>:]*?)(\3)>double
re_displace_upper_r ==
    <<Opt(re_lower(1)), Opt(re_upper(2)), Lit("["), Grp(3, Plus(W)), Lit("]"),
      Opt(re_upper(4)), Lit(":"), Lit("<"), Grp(5, <<Lazy(NotIn({"<", ">", ":"}))>>),
      Grp(6, <<Ref(3)>>), Lit(">")>>
    \o re_double(7)

\* lower?upper?\[(\w+)\]lower?::{([^<>:]*?)(\3)}double
re_displace_lower_r ==
    <<Opt(re_lower(1)), Opt(re_upper(2)), Lit("["), Grp(3, Plus(W)), Lit("]"),
      Opt(re_lower(4)), Lit(":"), Lit(":"), Lit("{"),
      Grp(5, <<Lazy(NotIn({"<", ">", ":"}))>>), Grp(6, <<Ref(3)>>), Lit("}")>>
    \o re_double(7)

\* (double upper lower?::lower? upper double)
re_format_1 ==
    <<Grp(1, re_double(2) \o re_upper(3) \o <<Opt(re_lower(4)), Lit(":"), Lit(":"),
             Opt(re_lower(5))>> \o re_upper(6) \o re_double(7))>>

\* (double upper? lower:lower upper? double)
re_format_2 ==
    <<Grp(1, re_double(2) \o <<Opt(re_upper(3))>> \o re_lower(4) \o <<Lit(":")>> \o
             re_lower(5) \o <<Opt(re_upper(6))>> \o re_double(7))>>

\* (double upper lower?::lower? double)
re_format_3 ==
    <<Grp(1, re_double(2) \o re_upper(3) \o <<Opt(re_lower(4)), Lit(":"), Lit(":"),
             Opt(re_lower(5))>> \o re_double(6))>>

\* (double upper? lower:upper? double)
re_format_4 ==
    <<Grp(1, re_double(2) \o <<Opt(re_upper(3))>> \o re_lower(4) \o
             <<Lit(":"), Opt(re_upper(5))>> \o re_double(6))>>

\* ------------------------------------------------------------------------
\* Canonicalisation
\* ------------------------------------------------------------------------
\* seq[1:len(seq) - 1] of a group, "" when the group is None
check_in(s, m, n) ==
    IF IsNone(m, n) THEN <<>>
    ELSE LET seq == Group(s, m, n) IN PySlice(seq, 1, Len(seq) - 1)

\* the group, "" when it is None
check_out(s, m, n) == IF IsNone(m, n) THEN <<>> ELSE Group(s, m, n)

\* seq[1:len(seq) - 1] of a string
Inner(seq) == PySlice(seq, 1, Len(seq) - 1)

\* tidy that leaves empty brackets in place
tidy_keep_empty(sys) ==
    LET s1 == Sub(re_large_spaces, <<" ">>, sys)
    IN  Sub(re_spaces, <<>>, s1)

tidy(sys) ==
    LET s1 == Sub(re_large_spaces, <<" ">>, sys)
        s2 == Sub(re_spaces, <<>>, s1)
    IN  Sub(re_empty, <<>>, s2)

\* fix_upper_gate that puts the lone strand behind the overhang of the gate
fix_upper_gate_behind(sys, m, i) ==
    IF ~IsNone(m, 3 + i)
    THEN PyTo(sys, Start(m, 0)) \o PySlice(sys, End(m, 1 + i) + 2, End(m, 3 + i) - 1) \o
         <<" ">> \o Inner(Group(sys, m, 1 + i)) \o PyFrom(sys, End(m, 3 + i) - 1)
    ELSE IF ~IsNone(m, 2 + i)
    THEN PyTo(sys, Start(m, 0)) \o Group(sys, m, 2 + i) \o Group(sys, m, 1 + i) \o
         PyFrom(sys, Start(m, 4 + i))
    ELSE PyTo(sys, Start(m, 0)) \o Group(sys, m, 1 + i) \o PyFrom(sys, Start(m, 4 + i))

fix_upper_gate(sys, m, i) ==
    IF ~IsNone(m, 3 + i)
    THEN PyTo(sys, Start(m, 0)) \o PySlice(sys, End(m, 1 + i) + 2, Start(m, 3 + i) + 1) \o
         Inner(Group(sys, m, 1 + i)) \o <<" ">> \o PyFrom(sys, Start(m, 3 + i) + 1)
    ELSE IF ~IsNone(m, 2 + i)
    THEN PyTo(sys, Start(m, 0)) \o Group(sys, m, 2 + i) \o Group(sys, m, 1 + i) \o
         PyFrom(sys, Start(m, 4 + i))
    ELSE PyTo(sys, Start(m, 0)) \o Group(sys, m, 1 + i) \o PyFrom(sys, Start(m, 4 + i))

\* fix_lower_gate that leaves the lone strand where it is
fix_lower_gate_kept(sys, m, i) == sys

fix_lower_gate(sys, m, i) ==
    IF ~IsNone(m, 2 + i)
    THEN PyTo(sys, Start(m, 0)) \o PySlice(sys, End(m, 1 + i) + 1, Start(m, 2 + i) + 1) \o
         Inner(Group(sys, m, 1 + i)) \o <<" ">> \o PyFrom(sys, Start(m, 2 + i) + 1)
    ELSE PyTo(sys, Start(m, 0)) \o Group(sys, m, 1 + i) \o PyFrom(sys, End(m, 1 + i) + 1)

RECURSIVE merge_gates(_)
merge_gates(sys) ==
    LET upper_g_1 == Search(re_lone_upper_1, sys)
        upper_g_2 == Search(re_lone_upper_2, sys)
        lower_g_1 == Search(re_lone_lower_1, sys)
        lower_g_2 == Search(re_lone_lower_2, sys)
    IN  IF upper_g_1.ok
        THEN IF ~IsNone(upper_g_1, 4)
             THEN merge_gates(fix_upper_gate(sys, upper_g_1, 0))
             ELSE merge_gates(fix_upper_gate(sys, upper_g_1, 6))
        ELSE IF upper_g_2.ok
        THEN IF ~IsNone(upper_g_2, 4)
             THEN merge_gates(PyTo(sys, End(upper_g_2, 4) - 1) \o <<" ">> \o
                              PyFrom(Group(sys, upper_g_2, 6), 1) \o
                              PySlice(sys, End(upper_g_2, 4), Start(upper_g_2, 6) - 2))
             ELSE merge_gates(PyTo(sys, End(upper_g_2, 3)) \o Group(sys, upper_g_2, 6) \o
                              PySlice(sys, End(upper_g_2, 3), Start(upper_g_2, 6) - 2))
        ELSE IF lower_g_1.ok
        THEN IF ~IsNone(lower_g_1, 4)
             THEN merge_gates(fix_lower_gate(sys, lower_g_1, 0))
             ELSE merge_gates(fix_lower_gate(sys, lower_g_1, 6))
        ELSE IF lower_g_2.ok
        THEN IF ~IsNone(lower_g_2, 5)
             THEN merge_gates(PyTo(sys, End(lower_g_2, 5) - 1) \o <<" ">> \o
                              PyFrom(Group(sys, lower_g_2, 6), 1))
             ELSE merge_gates(PyTo(sys, Start(lower_g_2, 6) - 1) \o Group(sys, lower_g_2, 6))
        ELSE sys

RECURSIVE reformat(_)
reformat(sys) ==
    LET format_1 == Search(re_format_1, sys)
        format_2 == Search(re_format_2, sys)
        format_3 == Search(re_format_3, sys)
        format_4 == Search(re_format_4, sys)
    IN  IF format_1.ok
        THEN LET upper == Inner(Group(sys, format_1, 3)) \o <<" ">>
             IN  reformat(PyTo(sys, Start(format_1, 3)) \o
                          PySlice(sys, End(format_1, 3), Start(format_1, 6) + 1) \o upper \o
                          PyFrom(sys, Start(format_1, 6) + 1))
        ELSE IF format_2.ok
        THEN LET lower == Inner(Group(sys, format_2, 4)) \o <<" ">>
             IN  reformat(PyTo(sys, Start(format_2, 4)) \o
                          PySlice(sys, End(format_2, 4), Start(format_2, 5) + 1) \o lower \o
                          PyFrom(sys, Start(format_2, 5) + 1))
        ELSE IF format_3.ok
        THEN reformat(PyTo(sys, Start(format_3, 3)) \o
                      PySlice(sys, End(format_3, 3), Start(format_3, 6)) \o
                      Group(sys, format_3, 3) \o PyFrom(sys, Start(format_3, 6)))
        ELSE IF format_4.ok
        THEN reformat(PyTo(sys, Start(format_4, 4)) \o <<":">> \o Group(sys, format_4, 4) \o
                      PyFrom(sys, End(format_4, 4) + 1))
        ELSE sys

\* standardise with its last two passes in the wrong order
standardise_swapped(sys) == merge_gates(reformat(tidy(sys)))

standardise(sys) == reformat(merge_gates(tidy(sys)))

\* One call of merge_gates: the argument of its recursive call, or no call
\* when none of the four patterns matches.
Recurse(sys) == [again |-> TRUE, sys |-> sys]
Return(sys) == [again |-> FALSE, sys |-> sys]

merge_gates_call(sys) ==
    LET upper_g_1 == Search(re_lone_upper_1, sys)
        upper_g_2 == Search(re_lone_upper_2, sys)
        lower_g_1 == Search(re_lone_lower_1, sys)
        lower_g_2 == Search(re_lone_lower_2, sys)
    IN  IF upper_g_1.ok
        THEN IF ~IsNone(upper_g_1, 4)
             THEN Recurse(fix_upper_gate(sys, upper_g_1, 0))
             ELSE Recurse(fix_upper_gate(sys, upper_g_1, 6))
        ELSE IF upper_g_2.ok
        THEN IF ~IsNone(upper_g_2, 4)
             THEN Recurse(PyTo(sys, End(upper_g_2, 4) - 1) \o <<" ">> \o
                          PyFrom(Group(sys, upper_g_2, 6), 1) \o
                          PySlice(sys, End(upper_g_2, 4), Start(upper_g_2, 6) - 2))
             ELSE Recurse(PyTo(sys, End(upper_g_2, 3)) \o Group(sys, upper_g_2, 6) \o
                          PySlice(sys, End(upper_g_2, 3), Start(upper_g_2, 6) - 2))
        ELSE IF lower_g_1.ok
        THEN IF ~IsNone(lower_g_1, 4)
             THEN Recurse(fix_lower_gate(sys, lower_g_1, 0))
             ELSE Recurse(fix_lower_gate(sys, lower_g_1, 6))
        ELSE IF lower_g_2.ok
        THEN IF ~IsNone(lower_g_2, 5)
             THEN Recurse(PyTo(sys, End(lower_g_2, 5) - 1) \o <<" ">> \o
                          PyFrom(Group(sys, lower_g_2, 6), 1))
             ELSE Recurse(PyTo(sys, Start(lower_g_2, 6) - 1) \o Group(sys, lower_g_2, 6))
        ELSE Return(sys)

\* One call of reformat, likewise
reformat_call(sys) ==
    LET format_1 == Search(re_format_1, sys)
        format_2 == Search(re_format_2, sys)
        format_3 == Search(re_format_3, sys)
        format_4 == Search(re_format_4, sys)
    IN  IF format_1.ok
        THEN LET upper == Inner(Group(sys, format_1, 3)) \o <<" ">>
             IN  Recurse(PyTo(sys, Start(format_1, 3)) \o
                         PySlice(sys, End(format_1, 3), Start(format_1, 6) + 1) \o upper \o
                         PyFrom(sys, Start(format_1, 6) + 1))
        ELSE IF format_2.ok
        THEN LET lower == Inner(Group(sys, format_2, 4)) \o <<" ">>
             IN  Recurse(PyTo(sys, Start(format_2, 4)) \o
                         PySlice(sys, End(format_2, 4), Start(format_2, 5) + 1) \o lower \o
                         PyFrom(sys, Start(format_2, 5) + 1))
        ELSE IF format_3.ok
        THEN Recurse(PyTo(sys, Start(format_3, 3)) \o
                     PySlice(sys, End(format_3, 3), Start(format_3, 6)) \o
                     Group(sys, format_3, 3) \o PyFrom(sys, Start(format_3, 6)))
        ELSE IF format_4.ok
        THEN Recurse(PyTo(sys, Start(format_4, 4)) \o <<":">> \o Group(sys, format_4, 4) \o
                     PyFrom(sys, End(format_4, 4) + 1))
        ELSE Return(sys)

\* ------------------------------------------------------------------------
\* Rules.  What a novel_reactions generator does is a record: out, the
\* reactions it yields in order (a reaction is the sequence of its
\* products), and err, the exception that ends it ("none" when it returns).
\* ------------------------------------------------------------------------
Returned(rs) == [out |-> rs, err |-> "none"]

\* yield from a; yield from b
Then(a, b) ==
    IF a.err # "none" THEN a ELSE [out |-> a.out \o b.out, err |-> b.err]

\* The local variable sys of strand_to_gate_binding before its first assignment
Unbound == <<"unbound">>

\* One pass of the body of the innermost loop of strand_to_gate_binding
\* (dsd.py 253-281) for the matches gate, match, match_2; acc holds the
\* reactions yielded so far, the exception raised and the local sys.
gate_binding_step(k, l, upper, gate, match, match_2, acc) ==
    LET g == Group(k, gate, 0)
        lab == Group(g, match, 0)
        d_s == <<"[">> \o lab \o <<"^", "]">>
        i == Start(gate, 0)
        ms == Start(match, 0)
        me == End(match, 0)
        l_in_1 == PySlice(l, 1, Start(match_2, 0))
        l_in_2 == PySlice(l, End(match_2, 0) + 2, Len(l) - 1)
        In1(n) == ms > Start(gate, n) - i /\ me < End(gate, n) - i
        \* what the pass leaves: the local sys, how many times it yields
        \* standardise(sys), and the exception it raises
        Pass(sys, n) == [sys |-> sys, yields |-> n, err |-> "none"]
        Raise(e) == [sys |-> acc.sys, yields |-> 0, err |-> e]
        pass ==
            IF lab # Group(l, match_2, 0) THEN Pass(acc.sys, 0)
            ELSE IF upper
            THEN LET l_s_1 == <<"{">> \o l_in_1 \o <<"}">>
                     l_s_2 == <<"{">> \o l_in_2 \o <<"}">>
                 IN  IF In1(2)
                     THEN IF IsNone(gate, 1)
                          THEN Raise("TypeError")
                          ELSE LET u_s_1 == <<"<">> \o PySlice(k, Start(gate, 2) + 1, ms + i) \o <<">">>
                                   u_s_2 == <<"<">> \o PySlice(k, me + 1 + i, End(gate, 2) - 1) \o <<">">>
                               IN  Pass(PyTo(k, Start(gate, 0)) \o l_s_1 \o u_s_1 \o d_s \o l_s_2 \o
                                        <<":", ":">> \o Group(k, gate, 1) \o u_s_2 \o
                                        PyFrom(k, Start(gate, 3)), 1)
                     ELSE IF In1(4)
                     THEN LET u_s_1 == <<"<">> \o PySlice(k, Start(gate, 4) + 1, ms + i) \o <<">">>
                              u_s_2 == <<"<">> \o PySlice(k, me + i + 1, End(gate, 4) - 1) \o <<">">>
                          IN  Pass(PyTo(k, End(gate, 3)) \o check_out(k, gate, 5) \o <<":", ":">> \o
                                   l_s_1 \o u_s_1 \o d_s \o u_s_2 \o l_s_2 \o PyFrom(k, End(gate, 0)), 1)
                     ELSE Pass(acc.sys, 0)
            ELSE LET u_s_1 == <<"<">> \o l_in_1 \o <<">">>
                     u_s_2 == <<"<">> \o l_in_2 \o <<">">>
                 \* the if / elif of lines 272-280 and the yield of line 281,
                 \* which stands outside them: the if branch yields twice,
                 \* and a pass through neither branch yields the sys of an
                 \* earlier pass
                 IN  IF In1(1)
                     THEN LET l_s_1 == <<"{">> \o PySlice(k, Start(gate, 1) + 1, ms + i) \o <<"}">>
                              l_s_2 == <<"{">> \o PySlice(k, me + i + 2, End(gate, 1) - 1) \o <<"}">>
                          IN  Pass(PyTo(k, Start(gate, 0)) \o l_s_1 \o u_s_1 \o d_s \o u_s_2 \o
                                   l_s_2 \o <<":">> \o PyFrom(k, End(gate, 1)), 2)
                     ELSE IF In1(5)
                     THEN LET l_s_1 == <<"{">> \o PySlice(k, Start(gate, 5) + 1, ms + i) \o <<"}">>
                              l_s_2 == <<"{">> \o PySlice(k, me + i + 2, End(gate, 5) - 1) \o <<"}">>
                          IN  Pass(PyTo(k, End(gate, 4)) \o <<":">> \o l_s_1 \o u_s_1 \o d_s \o
                                   u_s_2 \o l_s_2 \o PyFrom(k, End(gate, 0)), 1)
                     ELSE IF acc.sys = Unbound THEN Raise("UnboundLocalError")
                     ELSE Pass(acc.sys, 1)
    IN  [out |-> acc.out \o [j \in 1..pass.yields |-> <<standardise(pass.sys)>>],
         err |-> pass.err, sys |-> pass.sys]

\* The three nested loops of strand_to_gate_binding, as the list of the
\* (gate, match, match_2) they visit in order.
gate_binding_visits(k, l, regex_1, regex_2) ==
    LET gates == FindIter(re_gate, k)
        m2s == FindIter(regex_2, l)
        PerGate(gate) ==
            LET m1s == FindIter(regex_1, Group(k, gate, 0))
            IN  [j \in 1..(Len(m1s) * Len(m2s)) |->
                    <<gate, m1s[((j - 1) \div Len(m2s)) + 1], m2s[((j - 1) % Len(m2s)) + 1]>>]
        RECURSIVE Cat(_)
        Cat(n) == IF n = 0 THEN <<>> ELSE Cat(n - 1) \o PerGate(gates[n])
    IN  Cat(Len(gates))

RECURSIVE gate_binding_loop(_, _, _, _, _, _)
gate_binding_loop(k, l, upper, visits, n, acc) ==
    IF n > Len(visits) \/ acc.err # "none" THEN acc
    ELSE gate_binding_loop(k, l, upper, visits, n + 1,
             gate_binding_step(k, l, upper, visits[n][1], visits[n][2], visits[n][3], acc))

\* BindingRule.strand_to_gate_binding(k, l, regex_1, regex_2); upper says
\* that regex_1 is re_upper_lab.
strand_to_gate_binding(k, l, upper) ==
    LET regex_1 == IF upper THEN re_upper_lab ELSE re_lower_lab
        regex_2 == IF upper THEN re_lower_lab ELSE re_upper_lab
        acc == gate_binding_loop(k, l, upper, gate_binding_visits(k, l, regex_1, regex_2), 1,
                                 [out |-> <<>>, err |-> "none", sys |-> Unbound])
    IN  [out |-> acc.out, err |-> acc.err]

\* One pass of the body of the inner loop of strand_to_strand_binding
strand_binding_step(k, l, upper, match_1, match_2, acc) ==
    IF Group(k, match_1, 0) # Group(l, match_2, 0) THEN acc
    ELSE
    LET d_s == <<"[">> \o Group(l, match_2, 0) \o <<"^", "]">>
        l_tail == PyFrom(l, Start(match_2, 0))
        k_tail == PyFrom(k, Start(match_1, 0))
        k_head == PyTo(k, End(match_1, 0) + 1)
        l_head == PyTo(l, End(match_2, 0))
        close_l == Search(re_close, l_tail)
        close_k == Search(re_close, k_tail)
        open_k == Search(re_open, k_head)
        open_l == Search(re_open, l_head)
    IN  IF ~(close_l.ok /\ close_k.ok /\ open_k.ok /\ open_l.ok)
        THEN [acc EXCEPT !.err = "AttributeError"]
        ELSE
        LET part_a == PyTo(l, Start(match_2, 0)) \o Group(l_tail, close_l, 0)
            part_b == PyTo(k, Start(match_1, 0)) \o Group(k_tail, close_k, 0)
            part_c == Group(k_head, open_k, 0)
            part_d == Group(l_head, open_l, 0)
            sys == IF upper
                   THEN part_a \o part_b \o d_s \o part_c \o PyFrom(k, End(match_1, 0) + 1) \o
                        part_d \o PyFrom(l, End(match_2, 0) + 2)
                   ELSE part_b \o part_a \o d_s \o part_d \o PyFrom(l, End(match_2, 0) + 1) \o
                        part_c \o PyFrom(k, End(match_1, 0) + 2)
        IN  [acc EXCEPT !.out = @ \o <<<<tidy(sys)>>>>]

RECURSIVE strand_binding_loop(_, _, _, _, _, _, _)
strand_binding_loop(k, l, upper, m1s, m2s, n, acc) ==
    IF n > Len(m1s) * Len(m2s) \/ acc.err # "none" THEN acc
    ELSE strand_binding_loop(k, l, upper, m1s, m2s, n + 1,
             strand_binding_step(k, l, upper, m1s[((n - 1) \div Len(m2s)) + 1],
                                 m2s[((n - 1) % Len(m2s)) + 1], acc))

\* BindingRule.strand_to_strand_binding(k, l, regex_1, regex_2)
strand_to_strand_binding(k, l, upper) ==
    LET regex_1 == IF upper THEN re_upper_lab ELSE re_lower_lab
        regex_2 == IF upper THEN re_lower_lab ELSE re_upper_lab
    IN  strand_binding_loop(k, l, upper, FindIter(regex_1, k), FindIter(regex_2, l), 1,
                            Returned(<<>>))

\* BindingRule.novel_reactions that takes a reactant with a gate for a gate
\* to bind to, whatever the other reactant is
BindingRule_any_gate(k, l) ==
    LET gate_k == Search(re_gate, k)
        gate_l == Search(re_gate, l)
    IN  IF gate_k.ok \/ gate_l.ok
        THEN Then(strand_to_gate_binding(k, l, TRUE),
             Then(strand_to_gate_binding(l, k, TRUE),
             Then(strand_to_gate_binding(k, l, FALSE),
                  strand_to_gate_binding(l, k, FALSE))))
        ELSE Then(strand_to_strand_binding(k, l, TRUE), strand_to_strand_binding(k, l, FALSE))

\* BindingRule.novel_reactions(k, l)
BindingRule(k, l) ==
    LET gate_k == Search(re_gate, k)
        gate_l == Search(re_gate, l)
    IN  IF (~gate_k.ok /\ gate_l.ok) \/ (~gate_l.ok /\ gate_k.ok)
        THEN Then(strand_to_gate_binding(k, l, TRUE),
             Then(strand_to_gate_binding(l, k, TRUE),
             Then(strand_to_gate_binding(k, l, FALSE),
                  strand_to_gate_binding(l, k, FALSE))))
        ELSE IF ~gate_k.ok \/ ~gate_l.ok
        THEN Then(strand_to_strand_binding(k, l, TRUE), strand_to_strand_binding(k, l, FALSE))
        ELSE Returned(<<>>)

\* The reaction UnbindingRule.toehold_unbinding yields for the gate of kl
\* (dsd.py 312-329); none when the gate has no unbindable duplex.
unbinding_step(kl, gate) ==
    LET g == Group(kl, gate, 0)
        d_s == Search(re_short_double_th, g)
        lab == Search(re_double_lab, Group(g, d_s, 0))
    IN  IF ~d_s.ok THEN Returned(<<>>)
        ELSE IF ~lab.ok THEN [out |-> <<>>, err |-> "AttributeError"]
        ELSE
        LET label == Group(Group(g, d_s, 0), lab, 0)
            a0 == <<"<">> \o check_in(kl, gate, 2) \o <<" ">> \o label \o <<"^", " ">> \o
                  check_in(kl, gate, 4) \o <<">">>
            b0 == <<"{">> \o check_in(kl, gate, 1) \o <<" ">> \o label \o <<"^", "*", " ">> \o
                  check_in(kl, gate, 5) \o <<"}">>
            before == Start(gate, 0) > 0
            upper_before == PySlice(kl, Start(gate, 0) - 2, Start(gate, 0)) = <<":", ":">>
            a1 == IF before /\ upper_before THEN PyTo(kl, Start(gate, 0)) \o a0 ELSE a0
            b1 == IF before /\ ~upper_before THEN PyTo(kl, Start(gate, 0)) \o b0 ELSE b0
            after == End(gate, 0) < Len(kl)
            upper_after == PySlice(kl, End(gate, 0), End(gate, 0) + 2) = <<":", ":">>
            part_a == IF after /\ upper_after THEN a1 \o PyFrom(kl, End(gate, 0)) ELSE a1
            part_b == IF after /\ ~upper_after THEN b1 \o PyFrom(kl, End(gate, 0)) ELSE b1
        IN  Returned(<<<<standardise(part_a), standardise(part_b)>>>>)

\* Run step on each match of ms in turn, as a generator's for loop does.
RECURSIVE ForEach(_, _, _)
ForEach(step(_), ms, n) ==
    IF n > Len(ms) THEN Returned(<<>>)
    ELSE Then(step(ms[n]), ForEach(step, ms, n + 1))

\* UnbindingRule.novel_reactions(kl)
UnbindingRule(kl) ==
    LET step(gate) == unbinding_step(kl, gate)
    IN  ForEach(step, FindIter(re_gate, kl), 1)

\* The reaction of the first loop of CoveringRule.toehold_covering
post_cover_step(k, match) ==
    LET updated_sys ==
            IF ~IsNone(match, 1)
            THEN PyTo(k, Start(match, 0) - 1) \o <<" ">> \o Group(k, match, 1) \o
                 <<"^", "]", "<">> \o check_out(k, match, 2) \o <<">">> \o
                 check_out(k, match, 3) \o <<"{">> \o check_out(k, match, 5) \o <<"}">> \o
                 PyFrom(k, End(match, 0))
            ELSE PyTo(k, Start(match, 0) - 2) \o <<" ">> \o Group(k, match, 6) \o
                 <<"^", "]", "{">> \o check_out(k, match, 7) \o <<"}", ":", ":">> \o
                 check_out(k, match, 8) \o <<"<">> \o check_out(k, match, 10) \o <<">">> \o
                 PyFrom(k, End(match, 0))
    IN  Returned(<<<<tidy(updated_sys)>>>>)

\* The reaction of the second loop of CoveringRule.toehold_covering
pre_cover_step(k, match) ==
    LET updated_sys ==
            PyTo(k, Start(match, 0)) \o <<"{">> \o check_out(k, match, 1) \o <<"}", "<">> \o
            check_out(k, match, 3) \o <<">", "[">> \o Group(k, match, 2) \o <<"^", " ">> \o
            PyFrom(k, End(match, 0) + 1)
    IN  Returned(<<<<tidy(updated_sys)>>>>)

\* CoveringRule.novel_reactions without the loop over re_pre_cover
CoveringRule_post_only(k) ==
    LET post(match) == post_cover_step(k, match)
    IN  ForEach(post, FindIter(re_post_cover, k), 1)

\* CoveringRule.novel_reactions(k)
CoveringRule(k) ==
    LET post(match) == post_cover_step(k, match)
        pre(match) == pre_cover_step(k, match)
    IN  Then(ForEach(post, FindIter(re_post_cover, k), 1),
             ForEach(pre, FindIter(re_pre_cover, k), 1))

\* The reaction MigrationRule.migrate yields for a match; lower says that
\* regex_2 is re_lower.
migrate_step(k, match, lower) ==
    LET g == Group(k, match, 0)
        i == Start(match, 0)
        open == IF lower THEN <<"{">> ELSE <<"<">>
        close == IF lower THEN <<"}">> ELSE <<">">>
        bracket == IF lower THEN <<":", ":">> ELSE <<":">>
        g1 == Group(k, match, 1)
        d_s_1 == PyTo(g1, Len(g1) - 1) \o <<" ">> \o Group(k, match, 3) \o <<"]">>
        d_s_2 == <<"[">> \o PySlice(g, End(match, 6) - i, End(match, 5) - i)
        strand_1 == open \o PySlice(g, End(match, 3) - i, End(match, 2) - i)
        strand_2 == open \o check_in(k, match, 4) \o <<" ">> \o Group(k, match, 3) \o close
        seq == tidy(PyTo(k, Start(match, 0)) \o d_s_1 \o strand_1 \o bracket \o strand_2 \o
                    d_s_2 \o PyFrom(k, End(match, 0)))
    IN  Returned(<<<<seq>>>>)

\* The reaction MigrationRule.migrate_rev yields for a match
migrate_rev_step(k, match, lower) ==
    LET g == Group(k, match, 0)
        i == Start(match, 0)
        open == IF lower THEN <<"{">> ELSE <<"<">>
        close == IF lower THEN <<"}">> ELSE <<">">>
        bracket == IF lower THEN <<":", ":">> ELSE <<":">>
        d_s_1 == PyTo(g, Start(match, 2) - i) \o <<"]">>
        d_s_2 == <<"[">> \o Group(k, match, 2) \o <<" ">> \o PyFrom(Group(k, match, 6), 1)
        strand_1 == open \o Group(k, match, 2) \o <<" ">> \o check_in(k, match, 3) \o close
        strand_2 == PySlice(g, Start(match, 4) - i, Start(match, 5) - i) \o close
        seq == tidy(PyTo(k, Start(match, 0)) \o d_s_1 \o strand_1 \o bracket \o strand_2 \o
                    d_s_2 \o PyFrom(k, End(match, 0)))
    IN  Returned(<<<<seq>>>>)

\* MigrationRule.migrate(k, regex_1, regex_2)
migrate(k, regex_1, lower) ==
    LET step(match) == migrate_step(k, match, lower)
    IN  ForEach(step, FindIter(regex_1, k), 1)

\* MigrationRule.migrate_rev(k, regex_1, regex_2)
migrate_rev(k, regex_1, lower) ==
    LET step(match) == migrate_rev_step(k, match, lower)
    IN  ForEach(step, FindIter(regex_1, k), 1)

\* MigrationRule.novel_reactions(k)
MigrationRule(k0) ==
    LET k == tidy(k0)
    IN  Then(migrate(k, re_lower_migrate, TRUE),
        Then(migrate(k, re_upper_migrate, FALSE),
        Then(migrate_rev(k, re_lower_migrate_r, TRUE),
             migrate_rev(k, re_upper_migrate_r, FALSE))))

\* Where the four loops of MigrationRule find a match, each match yielding
\* one reaction: the direction of the step, the connector the pattern
\* spells and the place in k where the left duplex of the match ends.
migration_matches(k0) ==
    LET k == tidy(k0)
        at(regex_1, dir, conn) ==
            LET ms == FindIter(regex_1, k)
            IN  {<<dir, conn, End(ms[n], 1)>> : n \in DOMAIN ms}
    IN  at(re_lower_migrate, "fwd", <<":", ":">>) \cup at(re_upper_migrate, "fwd", <<":">>) \cup
        at(re_lower_migrate_r, "rev", <<":", ":">>) \cup at(re_upper_migrate_r, "rev", <<":">>)

\* The reaction DisplacementRule.displacement_fwd yields for a match; upper
\* says that regex_1 is re_displace_upper.
displacement_fwd_step(k, match, upper) ==
    LET g2 == Group(k, match, 2)
        me == End(match, 0)
        strand_1 == check_in(k, match, 4) \o <<" ">> \o g2 \o <<" ">>
        start == PyTo(k, End(match, 1) - 1) \o <<" ">> \o g2 \o <<"]">>
    IN  IF upper
        THEN IF PySlice(k, me, me + 2) # <<":", ":">>
             THEN Returned(<<<<
                    tidy(<<"<">> \o strand_1 \o check_in(k, match, 6) \o <<">">>),
                    tidy(start \o <<"<">> \o check_out(k, match, 3) \o <<">">> \o
                         check_out(k, match, 7) \o PyFrom(k, me))>>>>)
             ELSE Returned(<<<<
                    tidy(start \o <<"<">> \o check_out(k, match, 3) \o <<">">> \o
                         check_out(k, match, 7)),
                    tidy(<<"<">> \o check_in(k, match, 4) \o <<" ">> \o g2 \o <<">">> \o
                         PyFrom(k, me + 2))>>>>)
        ELSE IF PySlice(k, me, me + 1) = <<":">> /\ PySlice(k, me + 1, me + 2) # <<":">>
             THEN Returned(<<<<
                    tidy(start \o check_out(k, match, 6) \o <<"{">> \o check_out(k, match, 3) \o
                         <<"}">>),
                    tidy(<<"{">> \o check_in(k, match, 4) \o <<" ">> \o Group(k, match, 5) \o
                         <<"}">> \o PyFrom(k, me + 1))>>>>)
             ELSE Returned(<<<<
                    tidy(<<"{">> \o strand_1 \o check_in(k, match, 7) \o <<"}">>),
                    tidy(start \o <<" ">> \o check_out(k, match, 6) \o <<"{">> \o
                         check_out(k, match, 3) \o <<"}">> \o PyFrom(k, me))>>>>)

\* The reaction DisplacementRule.displacement_rev yields for a match; upper
\* says that regex_1 is re_displace_upper_r.
displacement_rev_step(k, match, upper) ==
    LET g3 == Group(k, match, 3)
        ms == Start(match, 0)
        me == End(match, 0)
        g7 == Group(k, match, 7)
    IN  IF upper
        THEN IF PySlice(k, ms - 2, ms) # <<":", ":">>
             THEN Returned(<<<<
                    tidy(<<"<">> \o check_in(k, match, 2) \o <<" ">> \o g3 \o <<" ">> \o
                         check_in(k, match, 4) \o <<">">>),
                    tidy(PyTo(k, ms) \o check_out(k, match, 1) \o <<"<">> \o
                         check_out(k, match, 5) \o <<">", "[">> \o g3 \o <<" ">> \o
                         PyFrom(g7, 1) \o PyFrom(k, me))>>>>)
             ELSE Returned(<<<<
                    tidy(tidy(PyTo(k, ms - 2)) \o <<"<">> \o g3 \o <<" ">> \o
                         check_in(k, match, 4) \o <<">">>),
                    tidy(check_out(k, match, 1) \o <<"<">> \o Group(k, match, 5) \o
                         <<">", "[">> \o g3 \o <<" ">> \o check_in(k, match, 7) \o <<"]">> \o
                         PyFrom(k, End(match, 7)))>>>>)
        ELSE IF PySlice(k, ms - 1, ms) = <<":">> /\ PySlice(k, ms - 2, ms - 1) # <<":">>
             THEN Returned(<<<<
                    tidy(tidy(PyTo(k, ms - 1) \o <<"{">> \o g3 \o <<" ">> \o
                              check_in(k, match, 4) \o <<"}">>)),
                    tidy(<<"{">> \o Group(k, match, 5) \o <<"}">> \o check_out(k, match, 2) \o
                         <<"[">> \o g3 \o <<" ">> \o check_in(k, match, 7) \o <<"]">> \o
                         PyFrom(k, End(match, 7)))>>>>)
             ELSE Returned(<<<<
                    tidy(<<"{">> \o check_in(k, match, 1) \o <<" ">> \o g3 \o <<" ">> \o
                         check_in(k, match, 4) \o <<"}">>),
                    tidy(PyTo(k, ms) \o <<"{">> \o check_out(k, match, 5) \o <<"}">> \o
                         check_out(k, match, 2) \o <<"[">> \o g3 \o <<" ">> \o PyFrom(g7, 1) \o
                         PyFrom(k, me))>>>>)

\* DisplacementRule.displacement_fwd(k, regex_1)
displacement_fwd(k, regex_1, upper) ==
    LET step(match) == displacement_fwd_step(k, match, upper)
    IN  ForEach(step, FindIter(regex_1, k), 1)

\* DisplacementRule.displacement_rev(k, regex_1)
displacement_rev(k, regex_1, upper) ==
    LET step(match) == displacement_rev_step(k, match, upper)
    IN  ForEach(step, FindIter(regex_1, k), 1)

\* Where the four loops of DisplacementRule find a match, as for Migration
\* (the left duplex is group 1 of the forward patterns, and group 3 with
\* its brackets in the reverse ones).
displacement_matches(k0) ==
    LET k == tidy(k0)
        at(regex_1, dir, conn, n0, more) ==
            LET ms == FindIter(regex_1, k)
            IN  {<<dir, conn, End(ms[n], n0) + more>> : n \in DOMAIN ms}
    IN  at(re_displace_upper, "fwd", <<":">>, 1, 0) \cup
        at(re_displace_lower, "fwd", <<":", ":">>, 1, 0) \cup
        at(re_displace_upper_r, "rev", <<":">>, 3, 1) \cup
        at(re_displace_lower_r, "rev", <<":", ":">>, 3, 1)

\* DisplacementRule.novel_reactions(k)
DisplacementRule(k0) ==
    LET k == tidy(k0)
    IN  Then(displacement_fwd(k, re_displace_upper, TRUE),
        Then(displacement_fwd(k, re_displace_lower, FALSE),
        Then(displacement_rev(k, re_displace_upper_r, TRUE),
             displacement_rev(k, re_displace_lower_r, FALSE))))

\* What rotate returns when its argument is neither an upper nor a lower
\* strand (Python's None)
PyNone == <<"None">>

\* str.split(" "): the fields between single spaces, empty ones included
RECURSIVE split(_, _)
split(s, field) ==
    IF s = <<>> THEN <<field>>
    ELSE IF Head(s) = " " THEN <<field>> \o split(Tail(s), <<>>)
    ELSE split(Tail(s), field \o <<Head(s)>>)

\* The loop of rotate over domains[::-1]: " " + domain for each
RECURSIVE rotate_loop(_, _)
rotate_loop(domains, n) ==
    IF n = 0 THEN <<>> ELSE <<" ">> \o domains[n] \o rotate_loop(domains, n - 1)

\* rotate(strand) that keeps the domains in their order
rotate_unreversed(strand) ==
    IF Search(re_gate, strand).ok THEN <<>>
    ELSE IF Search(re_upper(1), strand).ok THEN <<"{">> \o Inner(strand) \o <<"}">>
    ELSE IF Search(re_lower(1), strand).ok THEN <<"<">> \o Inner(strand) \o <<">">>
    ELSE PyNone

\* rotate(strand)
rotate(strand) ==
    IF Search(re_gate, strand).ok THEN <<>>
    ELSE LET domains == split(Inner(strand), <<>>)
             new_strand == rotate_loop(domains, Len(domains))
         IN  IF Search(re_upper(1), strand).ok THEN <<"{">> \o PyFrom(new_strand, 1) \o <<"}">>
             ELSE IF Search(re_lower(1), strand).ok THEN <<"<">> \o PyFrom(new_strand, 1) \o <<">">>
             ELSE PyNone

\* The reactions of one loop of strand_leak over the matches of the gate's
\* duplex text in ins (in_l or rot_l); upper says which strand of the gate
\* the loop replaces.
leak_loop(k, gate, ins, upper) ==
    LET ms == FindIter(Text(check_in(k, gate, 3)), ins)
        leaked_u_s == <<"<">> \o check_in(k, gate, 2) \o <<" ">> \o check_in(k, gate, 3) \o
                      <<" ">> \o check_in(k, gate, 4) \o <<">">>
        leaked_l_s == <<"{">> \o check_in(k, gate, 1) \o <<" ">> \o check_in(k, gate, 3) \o
                      <<" ">> \o check_in(k, gate, 5) \o <<"}">>
        new_sys(match) ==
            IF upper
            THEN PyTo(k, Start(gate, 2)) \o <<"<">> \o PyTo(ins, Start(match, 0)) \o <<">">> \o
                 Group(k, gate, 3) \o <<"<">> \o PyFrom(ins, End(match, 0)) \o <<">">> \o
                 PyFrom(k, End(gate, 4))
            ELSE PyTo(k, Start(gate, 0)) \o <<"{">> \o PyTo(ins, Start(match, 0)) \o <<"}">> \o
                 PySlice(k, Start(gate, 2), End(gate, 4)) \o <<"{">> \o
                 PyFrom(ins, End(match, 0)) \o <<"}">> \o PyFrom(k, End(gate, 0))
    IN  [n \in DOMAIN ms |->
            <<tidy(new_sys(ms[n])), tidy(IF upper THEN leaked_u_s ELSE leaked_l_s)>>]

\* The reactions LeakageRule.strand_leak yields for one gate of k
strand_leak_step(k, l, gate) ==
    IF Search(re_short_double_th, Group(k, gate, 3)).ok THEN Returned(<<>>)
    ELSE
    LET in_l == Inner(l)
        rotated == rotate(l)
        rot_l == IF rotated = PyNone THEN <<>> ELSE Inner(rotated)
        gs == Start(gate, 0)
        ge == End(gate, 0)
        upper_gate_join_1 == PySlice(k, gs - 2, gs)
        upper_gate_join_2 == PySlice(k, ge, ge + 2)
        lower_gate_join_1 == PySlice(k, gs - 2, gs - 1)
        lower_gate_join_2 == PySlice(k, ge + 1, ge + 2)
        upper_free == upper_gate_join_1 # <<":", ":">> /\ upper_gate_join_2 # <<":", ":">>
        lower_free == lower_gate_join_1 # <<":">> /\ lower_gate_join_2 # <<":">>
        is_upper == Search(re_upper(1), l).ok
        first == IF is_upper
                 THEN IF upper_free THEN leak_loop(k, gate, in_l, TRUE) ELSE <<>>
                 ELSE IF lower_free THEN leak_loop(k, gate, in_l, FALSE) ELSE <<>>
        second == IF is_upper
                  THEN IF lower_free THEN leak_loop(k, gate, rot_l, FALSE) ELSE <<>>
                  ELSE IF upper_free THEN leak_loop(k, gate, rot_l, TRUE) ELSE <<>>
    IN  Returned(first \o second)

\* LeakageRule.strand_leak(k, l)
strand_leak(k, l) ==
    LET step(gate) == strand_leak_step(k, l, gate)
    IN  ForEach(step, FindIter(re_gate, k), 1)

\* LeakageRule.novel_reactions(k, l)
LeakageRule(k, l) ==
    LET gate_k == Search(re_gate, k)
        gate_l == Search(re_gate, l)
    IN  IF (~gate_k.ok /\ gate_l.ok) \/ (~gate_l.ok /\ gate_k.ok)
        THEN Then(strand_leak(k, l), strand_leak(l, k))
        ELSE Returned(<<>>)

\* ------------------------------------------------------------------------
\* Complexes as structures.  A domain is the text of its label and marks; a
\* gate is its five strands, each a sequence of domains; a complex is its
\* gates and the connectors between them.  Render writes a structure in the
\* notation of dsd.py (re_gate: lower? upper? double upper? lower?).
\* ------------------------------------------------------------------------
Comp(d) == d \o <<"*">>                       \* the complement X^* of a toehold X^
IsToehold(d) == d # <<>> /\ d[Len(d)] = "^"

RECURSIVE Join(_)
Join(ds) ==
    IF ds = <<>> THEN <<>>
    ELSE IF Len(ds) = 1 THEN ds[1]
    ELSE ds[1] \o <<" ">> \o Join(Tail(ds))

Strand(open, close, ds) == IF ds = <<>> THEN <<>> ELSE <<open>> \o Join(ds) \o <<close>>
Upper(ds) == Strand("<", ">", ds)
Lower(ds) == Strand("{", "}", ds)
Duplex(ds) == Strand("[", "]", ds)

Gate(ll, lu, ds, ru, rl) == [ll |-> ll, lu |-> lu, ds |-> ds, ru |-> ru, rl |-> rl]
RenderGate(g) == Lower(g.ll) \o Upper(g.lu) \o Duplex(g.ds) \o Upper(g.ru) \o Lower(g.rl)

Complex(gates, conns) == [gates |-> gates, conns |-> conns]
UpperConn == <<":", ":">>                     \* gates sharing their upper strand
LowerConn == <<":">>                          \* gates sharing their lower strand

RECURSIVE RenderFrom(_, _)
RenderFrom(cx, i) ==
    IF i > Len(cx.gates) THEN <<>>
    ELSE (IF i = 1 THEN <<>> ELSE cx.conns[i - 1]) \o RenderGate(cx.gates[i]) \o
         RenderFrom(cx, i + 1)
Render(cx) == RenderFrom(cx, 1)

\* The structure written the one way reformat leaves it: an overhang that
\* runs into a connector of its own strand belongs to the gate after it.
Canon(cx) ==
    LET n == Len(cx.gates)
        in(i, c) == i > 1 /\ cx.conns[i - 1] = c
        out(i, c) == i < n /\ cx.conns[i] = c
        g(i) == cx.gates[i]
    IN  Complex([i \in 1..n |->
                   Gate((IF in(i, LowerConn) THEN g(i - 1).rl ELSE <<>>) \o g(i).ll,
                        (IF in(i, UpperConn) THEN g(i - 1).ru ELSE <<>>) \o g(i).lu,
                        g(i).ds,
                        IF out(i, UpperConn) THEN <<>> ELSE g(i).ru,
                        IF out(i, LowerConn) THEN <<>> ELSE g(i).rl)],
                cx.conns)

\* ------------------------------------------------------------------------
\* State.  A behaviour hands one reactant (k) or a pair of reactants (k, l)
\* to one operation of dsd.py and records what the operation gives back.
\* ------------------------------------------------------------------------
VARIABLES
    cx,     \* the structure k was written from
    cl,     \* the structure l was written from
    k,      \* first reactant, a string
    l,      \* second reactant, a string ("" for an operation on one complex)
    rule,   \* the operation applied, "none" before it
    res     \* what the operation gave back: [out, err]

vars == <<cx, cl, k, l, rule, res>>

MaxGates == 2       \* gates of a generated complex

NoComplex == Complex(<<>>, <<>>)

Apply(name, result) ==
    /\ rule = "none"
    /\ rule' = name
    /\ res' = result
    /\ UNCHANGED <<cx, cl, k, l>>

\* ------------------------------------------------------------------------
\* Canonicalisation of an initial-state key (dsd.py 549: the keys of
\* initial_state go through standardise).  The keys are complexes written
\* loosely: with lone strands joined to a gate, overhangs left on the near
\* side of a connector, spare spaces and empty brackets.
\* ------------------------------------------------------------------------
dA == <<"A">>
dB == <<"B">>
dC == <<"C">>

LoneUpper == Upper(<<dC>>)
LoneLower == Lower(<<dC>>)

\* What stands between two gates: a connector, or a lone strand between two
Joints == {LowerConn, UpperConn, UpperConn \o LoneUpper \o UpperConn,
           LowerConn \o LoneLower \o LowerConn}
Prefixes == {<<>>, LoneUpper \o UpperConn, LoneLower \o LowerConn}
Suffixes == {<<>>, UpperConn \o LoneUpper, LowerConn \o LoneLower}
Styles == {"plain", "wide", "empties"}

\* s with a space after every opening bracket, before every closing bracket
\* and next to every space
RECURSIVE Widen(_)
Widen(s) ==
    IF s = <<>> THEN <<>>
    ELSE LET c == Head(s)
         IN  (IF c \in {"<", "{", "["} THEN <<c, " ">>
              ELSE IF c \in {">", "}", "]"} THEN <<" ", c>>
              ELSE IF c = " " THEN <<" ", " ">>
              ELSE <<c>>) \o Widen(Tail(s))

\* s with an empty upper strand after every duplex and an empty lower
\* strand before every connector
RECURSIVE Litter(_)
Litter(s) ==
    IF s = <<>> THEN <<>>
    ELSE LET c == Head(s)
         IN  (IF c = "]" THEN <<"]", "<", ">">>
              ELSE IF c = ":" /\ Len(s) > 1 /\ s[2] # ":" THEN <<":", "{", " ", "}">>
              ELSE <<c>>) \o Litter(Tail(s))

Styled(style, s) ==
    CASE style = "wide" -> Widen(s)
      [] style = "empties" -> Litter(s)
      [] OTHER -> s

Overhangs == {<<>>, <<dA>>}

\* The gates of a loose complex of n gates: one gate has any overhangs, the
\* gates of a longer complex have them on the sides that face a joint.
LooseGates(n) ==
    {gs \in [1..n -> {Gate(ll, lu, <<dB>>, ru, rl) :
                        ll \in Overhangs, lu \in Overhangs, ru \in Overhangs, rl \in Overhangs}] :
        n > 1 => \A i \in 1..n :
                    /\ i = 1 => gs[i].ll = <<>> /\ gs[i].lu = <<>>
                    /\ i = n => gs[i].ru = <<>> /\ gs[i].rl = <<>>}

InitCanon ==
    \E n \in 1..MaxGates :
      \E gs \in LooseGates(n), cs \in [1..(n - 1) -> Joints],
         pre \in Prefixes, suf \in Suffixes, style \in Styles :
        /\ cx = [gates |-> gs, conns |-> cs, pre |-> pre, suf |-> suf, style |-> style]
        /\ cl = NoComplex
        /\ k = Styled(style, pre \o Render(Complex(gs, cs)) \o suf)
        /\ l = <<>>
        /\ rule = "none"
        /\ res = Returned(<<>>)

\* initial_state = {standardise(key): value ...}
Standardise == Apply("standardise", Returned(<<<<standardise(k)>>>>))

NextCanon == Standardise

SpecCanon == InitCanon /\ [][NextCanon]_vars

\* C1: canonicalisation is idempotent: standardising the standardised form
\* of a complex string (tidy, then merge_gates, then reformat) changes
\* nothing.
C1_Idempotent ==
    rule = "standardise" => standardise(res.out[1][1]) = res.out[1][1]

\* A loosely written key that all three passes of standardise rewrite.
C1_Witness ==
    /\ rule = "standardise"
    /\ tidy(k) # k
    /\ merge_gates(tidy(k)) # tidy(k)
    /\ res.out[1][1] # merge_gates(tidy(k))
    /\ standardise(res.out[1][1]) = res.out[1][1]

\* ------------------------------------------------------------------------
\* Binding: the reactants are two bare strands, a bare strand and a complex
\* of gates, or two complexes of gates, handed over in either order.
\* ------------------------------------------------------------------------
tT == <<"T", "^">>
tT1 == <<"T", "1", "^">>
tX == <<"X", "^">>
dD == <<"D">>

\* A bare strand is a complex of one unit that has no duplex.
UpperStrand(ds) == Complex(<<Gate(<<>>, ds, <<>>, <<>>, <<>>)>>, <<>>)
LowerStrand(ds) == Complex(<<Gate(ds, <<>>, <<>>, <<>>, <<>>)>>, <<>>)
IsStrand(c) == Len(c.gates) = 1 /\ c.gates[1].ds = <<>>
IsUpperStrand(c) == IsStrand(c) /\ c.gates[1].lu # <<>>
StrandDoms(c) == c.gates[1].ll \o c.gates[1].lu
HasGate(c) == \E i \in DOMAIN c.gates : c.gates[i].ds # <<>>

\* A complex is as reformat leaves it
IsCanon(c) == Canon(c) = c

\* Pairs of bare strands <a X b> and {c Y d}
StrandPairs ==
    {<<UpperStrand(a \o <<x>> \o b), LowerStrand(c \o <<y>> \o d)>> :
        a \in {<<>>, <<dA>>}, b \in {<<>>, <<dB>>}, c \in {<<>>, <<dC>>}, d \in {<<>>, <<dD>>},
        x \in {tT, tT1}, y \in {Comp(tT), Comp(tT1), Comp(tX)}}

\* Gates whose overhangs are empty or hold one toehold, bare or between two
\* long domains
UpperOverhangs == {<<>>, <<tT>>, <<dC, tT, dC>>}
LowerOverhangs == {<<>>, <<Comp(tT)>>, <<dC, Comp(tT), dC>>}
ToeholdGates(us, ls) ==
    {Gate(ll, lu, <<dD>>, ru, rl) : ll \in ls, lu \in us, ru \in us, rl \in ls}

\* The complexes of gates a strand is offered: every single gate, and the
\* chains of gates with bare toeholds
GateComplexes ==
    {Complex(<<g>>, <<>>) : g \in ToeholdGates(UpperOverhangs, LowerOverhangs)} \cup
    UNION {{c \in {Complex(gs, cs) :
                     gs \in [1..n -> ToeholdGates({<<>>, <<tT>>}, {<<>>, <<Comp(tT)>>})],
                     cs \in [1..(n - 1) -> {LowerConn, UpperConn}]} : IsCanon(c)} :
           n \in 2..MaxGates}

BindingStrands ==
    {UpperStrand(<<tT>>), UpperStrand(<<dA, tT, dB>>),
     LowerStrand(<<Comp(tT)>>), LowerStrand(<<dA, Comp(tT), dB>>)}

\* Pairs of complexes that both hold a gate
GatePairs ==
    {<<Complex(<<g>>, <<>>), Complex(<<h>>, <<>>)>> :
        g \in ToeholdGates({<<>>, <<tT>>}, {<<>>, <<Comp(tT)>>}),
        h \in ToeholdGates({<<>>, <<tT>>}, {<<>>, <<Comp(tT)>>})}

ReactantPairs ==
    StrandPairs \cup (GateComplexes \X BindingStrands) \cup GatePairs

InitBinding ==
    \E pair \in ReactantPairs, swap \in BOOLEAN :
        /\ cx = IF swap THEN pair[2] ELSE pair[1]
        /\ cl = IF swap THEN pair[1] ELSE pair[2]
        /\ k = Render(cx)
        /\ l = Render(cl)
        /\ rule = "none"
        /\ res = Returned(<<>>)

\* BindingRule().novel_reactions(k, l)
Bind == Apply("binding", BindingRule(k, l))

NextBinding == Bind

SpecBinding == InitBinding /\ [][NextBinding]_vars

\* The products of the reactions of a result
Products(r) == UNION {{r.out[i][j] : j \in DOMAIN r.out[i]} : i \in DOMAIN r.out}

Before(ds, j) == SubSeq(ds, 1, j - 1)
After(ds, j) == SubSeq(ds, j + 1, Len(ds))

\* The reactant of the pair that is a bare strand, and the other one
StrandOf(c1, c2) == IF IsStrand(c1) THEN c1 ELSE c2
GatesOf(c1, c2) == IF IsStrand(c1) THEN c2 ELSE c1

\* C2: Binding and Unbinding are inverse: Unbinding applied to any product
\* of Binding on (k, l) yields a reaction whose products are the two
\* reactants in canonical form.
C2_BindUnbindInverse ==
    rule = "binding" =>
        \A i \in DOMAIN res.out :
            LET back == UnbindingRule(res.out[i][1])
            IN  \E j \in DOMAIN back.out :
                    {back.out[j][n] : n \in DOMAIN back.out[j]} = {standardise(k), standardise(l)}

\* The places where toehold i of the upper strand u meets its complement,
\* domain j of the lower strand w
Sites(u, w) ==
    {site \in (DOMAIN u) \X (DOMAIN w) : IsToehold(u[site[1]]) /\ w[site[2]] = Comp(u[site[1]])}

\* C3: strand-to-strand Binding: an upper strand <a X^ b> and a lower strand
\* {c X^* d} that can pair in one place only yield the single product
\* {c}<a>[X^]<b>{d}, empty overhangs left out, in whichever order the two
\* strands are passed.
C3_StrandToStrand ==
    rule = "binding" /\ IsStrand(cx) /\ IsStrand(cl) /\ IsUpperStrand(cx) # IsUpperStrand(cl) =>
        LET u == StrandDoms(IF IsUpperStrand(cx) THEN cx ELSE cl)
            w == StrandDoms(IF IsUpperStrand(cx) THEN cl ELSE cx)
        IN  \A site \in Sites(u, w) :
                Cardinality(Sites(u, w)) = 1 =>
                    res = Returned(<<<<RenderGate(Gate(Before(w, site[2]), Before(u, site[1]),
                                                       <<u[site[1]]>>,
                                                       After(u, site[1]), After(w, site[2])))>>>>)

\* The overhangs of gate g a strand can bind to: the lower ones for an upper
\* strand, the upper ones for a lower strand; first the left one.
Facing(g, upper) == IF upper THEN <<g.ll, g.rl>> ELSE <<g.lu, g.ru>>

\* The places where a bare strand s meets a complementary toehold on an
\* overhang of a gate of c: gate i, side (1 left, 2 right), domain j of the
\* overhang, domain m of the strand.
GateSites(c, s) ==
    LET upper == IsUpperStrand(s)
        d == StrandDoms(s)
    IN  {site \in (DOMAIN c.gates) \X {1, 2} \X (1..5) \X (DOMAIN d) :
            LET over == Facing(c.gates[site[1]], upper)[site[2]]
            IN  /\ site[3] \in DOMAIN over
                /\ IF upper
                   THEN IsToehold(d[site[4]]) /\ over[site[3]] = Comp(d[site[4]])
                   ELSE IsToehold(over[site[3]]) /\ d[site[4]] = Comp(over[site[3]])}

\* The new gate can be written next to gate i when no other gate is joined
\* there, or the gate joined there shares the strand of the overhang.
Writable(c, s, site) ==
    LET conn == IF IsUpperStrand(s) THEN LowerConn ELSE UpperConn
        i == site[1]
    IN  IF site[2] = 1 THEN i = 1 \/ c.conns[i - 1] = conn
        ELSE i = Len(c.gates) \/ c.conns[i] = conn

\* The complex the claim describes for a site: the new gate [X^] carries the
\* two halves of the strand and, on its outer side, the outer half of the
\* overhang; the inner half stays on the gate; the connector is ':' across a
\* lower overhang and '::' across an upper one.
BoundAt(c, s, site) ==
    LET upper == IsUpperStrand(s)
        d == StrandDoms(s)
        i == site[1]
        left == site[2] = 1
        g == c.gates[i]
        over == Facing(g, upper)[site[2]]
        near == IF left THEN After(over, site[3]) ELSE Before(over, site[3])
        outerL == IF left THEN Before(over, site[3]) ELSE <<>>
        outerR == IF left THEN <<>> ELSE After(over, site[3])
        x == IF upper THEN d[site[4]] ELSE over[site[3]]
        new == IF upper
               THEN Gate(outerL, Before(d, site[4]), <<x>>, After(d, site[4]), outerR)
               ELSE Gate(Before(d, site[4]), outerL, <<x>>, outerR, After(d, site[4]))
        old == IF upper
               THEN IF left THEN [g EXCEPT !.ll = near] ELSE [g EXCEPT !.rl = near]
               ELSE IF left THEN [g EXCEPT !.lu = near] ELSE [g EXCEPT !.ru = near]
        conn == IF upper THEN LowerConn ELSE UpperConn
    IN  Render(Canon(Complex(
            SubSeq(c.gates, 1, i - 1) \o (IF left THEN <<new, old>> ELSE <<old, new>>) \o
            SubSeq(c.gates, i + 1, Len(c.gates)),
            SubSeq(c.conns, 1, i - 1) \o <<conn>> \o SubSeq(c.conns, i, Len(c.conns)))))

\* C4: strand-to-gate Binding: when one reactant is a bare strand and its
\* toehold meets its complement on an overhang of a gate of the other,
\* Binding yields the complex with the new gate [X^] joined to that gate by
\* ':' (lower overhang) or '::' (upper overhang), the overhang split around
\* the toehold and every other gate unchanged.
C4_StrandToGate ==
    rule = "binding" /\ IsStrand(cx) # IsStrand(cl) /\ HasGate(GatesOf(cx, cl)) =>
        LET c == GatesOf(cx, cl)
            s == StrandOf(cx, cl)
        IN  \A site \in GateSites(c, s) :
                Writable(c, s, site) => BoundAt(c, s, site) \in Products(res)

\* Some upper toehold on an overhang of c1 has its complement on a lower
\* overhang of c2.
Exposed(c1, c2) ==
    \E i \in DOMAIN c1.gates, j \in DOMAIN c2.gates :
        \E u \in {c1.gates[i].lu, c1.gates[i].ru}, w \in {c2.gates[j].ll, c2.gates[j].rl} :
            Sites(u, w) # {}

\* C5: Binding does not occur between two gates: when both reactants hold a
\* duplex, BindingRule yields no reaction, whatever toeholds they expose.
C5_NoGateToGate ==
    rule = "binding" /\ HasGate(cx) /\ HasGate(cl) => res = Returned(<<>>)

\* Two gates with complementary toeholds exposed, and no reaction.
C5_Witness ==
    /\ rule = "binding" /\ HasGate(cx) /\ HasGate(cl)
    /\ Exposed(cx, cl) /\ Exposed(cl, cx)
    /\ res = Returned(<<>>)

\* ------------------------------------------------------------------------
\* Unbinding: the reactant is a complex of gates in canonical form.
\* ------------------------------------------------------------------------
\* The gates that can stand at place i of a canonical complex of n gates
\* joined by cs: duplex from dss, overhangs from us (upper) and ls (lower).
\* A single gate has any overhangs; in a complex of several gates only the
\* overhangs that face a connector are filled, and the right overhang on
\* the strand a connector shares is empty, as reformat leaves it.
GatesAt(i, n, cs, dss, us, ls) ==
    {Gate(ll, lu, ds, ru, rl) :
        ll \in IF i = 1 /\ n > 1 THEN {<<>>} ELSE ls,
        lu \in IF i = 1 /\ n > 1 THEN {<<>>} ELSE us,
        ds \in dss,
        ru \in IF (i = n /\ n > 1) \/ (i < n /\ cs[i] = UpperConn) THEN {<<>>} ELSE us,
        rl \in IF (i = n /\ n > 1) \/ (i < n /\ cs[i] = LowerConn) THEN {<<>>} ELSE ls}

RECURSIVE GateSeqs(_, _, _, _, _, _)
GateSeqs(i, n, cs, dss, us, ls) ==
    IF i > n THEN {<<>>}
    ELSE {<<g>> \o rest : g \in GatesAt(i, n, cs, dss, us, ls),
                          rest \in GateSeqs(i + 1, n, cs, dss, us, ls)}

\* The canonical complexes of n gates
Chains(n, dss, us, ls) ==
    UNION {{Complex(gs, cs) : gs \in GateSeqs(1, n, cs, dss, us, ls)} :
           cs \in [1..(n - 1) -> {LowerConn, UpperConn}]}

UnbindingComplexes ==
    UNION {Chains(n, {<<tT>>, <<tT1>>, <<dD>>, <<tT, dD>>}, {<<>>, <<dA>>}, {<<>>, <<dB>>}) :
           n \in 1..MaxGates}

InitUnbinding ==
    \E c \in UnbindingComplexes :
        /\ cx = c
        /\ cl = NoComplex
        /\ k = Render(c)
        /\ l = <<>>
        /\ rule = "none"
        /\ res = Returned(<<>>)

\* UnbindingRule().novel_reactions(k)
Unbind == Apply("unbinding", UnbindingRule(k))

NextUnbinding == Unbind

SpecUnbinding == InitUnbinding /\ [][NextUnbinding]_vars

\* The duplex of gate i of c is a single toehold.
ToeholdGate(c, i) == Len(c.gates[i].ds) = 1 /\ IsToehold(c.gates[i].ds[1])

\* The product that holds one strand of gate i of c after its duplex [X^]
\* came apart: the strand itself (upper: <lu X^ ru>, lower: {ll X^* rl}),
\* and with it the gates on either side that conn joined to gate i.
Released(c, i, upper) ==
    LET g == c.gates[i]
        n == Len(c.gates)
        conn == IF upper THEN UpperConn ELSE LowerConn
        strand == IF upper THEN g.lu \o <<g.ds[1]>> \o g.ru
                  ELSE g.ll \o <<Comp(g.ds[1])>> \o g.rl
        onLeft == i > 1 /\ c.conns[i - 1] = conn
        onRight == i < n /\ c.conns[i] = conn
        lgs == SubSeq(c.gates, 1, i - 1)
        lcs == SubSeq(c.conns, 1, i - 2)
        rgs == SubSeq(c.gates, i + 1, n)
        rcs == SubSeq(c.conns, i + 1, n - 1)
        first == IF upper THEN [rgs[1] EXCEPT !.lu = strand \o @]
                 ELSE [rgs[1] EXCEPT !.ll = strand \o @]
        last == IF upper THEN [lgs[i - 1] EXCEPT !.ru = @ \o strand]
                ELSE [lgs[i - 1] EXCEPT !.rl = @ \o strand]
    IN  IF onRight /\ onLeft
        THEN Render(Canon(Complex(lgs \o <<first>> \o Tail(rgs), lcs \o <<conn>> \o rcs)))
        ELSE IF onRight THEN Render(Canon(Complex(<<first>> \o Tail(rgs), rcs)))
        ELSE IF onLeft THEN Render(Canon(Complex(SubSeq(lgs, 1, i - 2) \o <<last>>, lcs)))
        ELSE IF upper THEN Upper(strand) ELSE Lower(strand)

\* C6: Unbinding yields one reaction for each gate whose duplex is a single
\* toehold [X^] and none for any other gate; its two products are the upper
\* strand <lu X^ ru> and the lower strand {ll X^* rl}, each with the gates
\* that were joined to the gate through that strand ('::' upper, ':' lower).
C6_Unbinding ==
    rule = "unbinding" =>
        /\ res.err = "none"
        /\ Len(res.out) = Cardinality({i \in DOMAIN cx.gates : ToeholdGate(cx, i)})
        /\ \A i \in DOMAIN cx.gates :
              ToeholdGate(cx, i) =>
                  \E j \in DOMAIN res.out :
                      /\ Len(res.out[j]) = 2
                      /\ {res.out[j][1], res.out[j][2]} =
                             {Released(cx, i, TRUE), Released(cx, i, FALSE)}

\* ------------------------------------------------------------------------
\* Covering: the reactant is a complex of gates in canonical form whose
\* overhangs hold toeholds next to the duplex or one domain away from it.
\* ------------------------------------------------------------------------
CoveringUppers == {<<>>, <<tT>>, <<tT, dA>>, <<dA, tT>>, <<tT1>>}
CoveringLowers == {<<>>, <<Comp(tT)>>, <<Comp(tT), dA>>, <<dA, Comp(tT)>>, <<Comp(tT1)>>}

CoveringComplexes ==
    UNION {Chains(n, {<<dD>>}, CoveringUppers, CoveringLowers) : n \in 1..MaxGates}

InitCovering ==
    \E c \in CoveringComplexes :
        /\ cx = c
        /\ cl = NoComplex
        /\ k = Render(c)
        /\ l = <<>>
        /\ rule = "none"
        /\ res = Returned(<<>>)

\* CoveringRule().novel_reactions(k)
Cover == Apply("covering", CoveringRule(k))

NextCovering == Cover

SpecCovering == InitCovering /\ [][NextCovering]_vars

First(ds) == ds[1]
Last(ds) == ds[Len(ds)]
Front(ds) == SubSeq(ds, 1, Len(ds) - 1)

\* The places of c where a toehold X^ next to the duplex of gate i has X^*
\* at the mirrored position: "left" and "right" in the gate itself, "lower"
\* with X^* on the gate after a ':', "upper" with X^ on the gate after a '::'.
CoverSites(c) ==
    {site \in (DOMAIN c.gates) \X {"left", "right", "lower", "upper"} :
        LET i == site[1]
            g == c.gates[i]
            joined(conn) == i < Len(c.gates) /\ c.conns[i] = conn
        IN  CASE site[2] = "left" ->
                    /\ g.lu # <<>> /\ g.ll # <<>>
                    /\ IsToehold(Last(g.lu)) /\ Last(g.ll) = Comp(Last(g.lu))
              [] site[2] = "right" ->
                    /\ g.ru # <<>> /\ g.rl # <<>>
                    /\ IsToehold(First(g.ru)) /\ First(g.rl) = Comp(First(g.ru))
              [] site[2] = "lower" ->
                    /\ g.ru # <<>> /\ g.rl = <<>> /\ joined(LowerConn)
                    /\ c.gates[i + 1].ll # <<>>
                    /\ IsToehold(First(g.ru)) /\ First(c.gates[i + 1].ll) = Comp(First(g.ru))
              [] site[2] = "upper" ->
                    /\ g.rl # <<>> /\ g.ru = <<>> /\ joined(UpperConn)
                    /\ c.gates[i + 1].lu # <<>>
                    /\ IsToehold(First(c.gates[i + 1].lu))
                    /\ First(g.rl) = Comp(First(c.gates[i + 1].lu))}

\* c with the toehold of a site moved from the two overhangs into the duplex
CoveredAt(c, site) ==
    LET i == site[1]
        g == c.gates[i]
    IN  Render(
        CASE site[2] = "left" ->
                [c EXCEPT !.gates[i] = Gate(Front(g.ll), Front(g.lu), <<Last(g.lu)>> \o g.ds,
                                            g.ru, g.rl)]
          [] site[2] = "right" ->
                [c EXCEPT !.gates[i] = Gate(g.ll, g.lu, g.ds \o <<First(g.ru)>>,
                                            Tail(g.ru), Tail(g.rl))]
          [] site[2] = "lower" ->
                [c EXCEPT !.gates[i] = Gate(g.ll, g.lu, g.ds \o <<First(g.ru)>>, Tail(g.ru), g.rl),
                          !.gates[i + 1].ll = Tail(@)]
          [] site[2] = "upper" ->
                [c EXCEPT !.gates[i] = Gate(g.ll, g.lu, g.ds \o <<First(c.gates[i + 1].lu)>>,
                                            g.ru, Tail(g.rl)),
                          !.gates[i + 1].lu = Tail(@)])

\* C7: Covering extends a duplex by one toehold: wherever the upper overhang
\* next to a duplex has X^ nearest the duplex and the lower overhang at the
\* mirrored position (same gate, or across ':' or '::') has X^* nearest it,
\* CoveringRule yields the complex with X^ added to that end of the duplex
\* and removed from both overhangs, the rest unchanged.
C7_Covering ==
    rule = "covering" =>
        /\ res.err = "none"
        /\ \A site \in CoverSites(cx) : <<CoveredAt(cx, site)>> \in {res.out[j] : j \in DOMAIN res.out}

\* A complex covered on the left of one gate and across a connector.
C7_Witness ==
    /\ rule = "covering"
    /\ \E s1, s2 \in CoverSites(cx) :
          /\ s1[2] = "left" /\ s2[2] \in {"lower", "upper"}
          /\ <<CoveredAt(cx, s1)>> \in {res.out[j] : j \in DOMAIN res.out}
          /\ <<CoveredAt(cx, s2)>> \in {res.out[j] : j \in DOMAIN res.out}

\* ------------------------------------------------------------------------
\* Migration and Displacement: the reactant is a canonical complex of two
\* or more gates; the overhangs between its gates hold the long domain S.
\* ------------------------------------------------------------------------
dS == <<"S">>
dS1 == <<"S", "1">>

MaxChain == 3       \* gates of a complex branch migration runs along

MigrationDuplexes == {<<dA, dS>>, <<dS, dA>>, <<dS>>, <<dS1>>}

\* Pairs of gates with any overhangs between them, and longer chains with
\* overhangs on one kind of strand.
MigrationComplexes ==
    Chains(2, MigrationDuplexes, {<<>>, <<dS>>}, {<<>>, <<dS>>}) \cup
    UNION {Chains(n, MigrationDuplexes, {<<>>, <<dS>>}, {<<>>}) \cup
           Chains(n, MigrationDuplexes, {<<>>}, {<<>>, <<dS>>}) : n \in 3..MaxChain}

InitMigration ==
    \E c \in MigrationComplexes :
        /\ cx = c
        /\ cl = NoComplex
        /\ k = Render(c)
        /\ l = <<>>
        /\ rule = "none"
        /\ res = Returned(<<>>)

\* MigrationRule().novel_reactions(k)
Migrate == Apply("migration", MigrationRule(k))

\* DisplacementRule().novel_reactions(k)
Displace == Apply("displacement", DisplacementRule(k))

NextMigration == Migrate \/ Displace

SpecMigration == InitMigration /\ [][NextMigration]_vars

\* The two duplexes at connector i of c are adjacent: the strand the
\* connector shares has no overhang between them.
Adjacent(c, i) ==
    IF c.conns[i] = LowerConn
    THEN c.gates[i].rl = <<>> /\ c.gates[i + 1].ll = <<>>
    ELSE c.gates[i].ru = <<>> /\ c.gates[i + 1].lu = <<>>

\* The overhang at connector i that can invade: of the left gate ("fwd") or
\* of the right gate ("rev"), on the strand the connector does not share.
Invader(c, i, dir) ==
    IF c.conns[i] = LowerConn
    THEN IF dir = "fwd" THEN c.gates[i].ru ELSE c.gates[i + 1].lu
    ELSE IF dir = "fwd" THEN c.gates[i].rl ELSE c.gates[i + 1].ll

\* The duplex the invader faces, and the domain S at the boundary
Invaded(c, i, dir) == IF dir = "fwd" THEN c.gates[i + 1].ds ELSE c.gates[i].ds
Boundary(c, i, dir) ==
    IF dir = "fwd" THEN First(Invader(c, i, dir)) ELSE Last(Invader(c, i, dir))

\* An overhang at connector i whose boundary domain faces the next duplex
Junctions(c) ==
    {j \in (DOMAIN c.conns) \X {"fwd", "rev"} :
        Adjacent(c, j[1]) /\ Invader(c, j[1], j[2]) # <<>>}

\* The duplex a junction faces begins (ends, for "rev") with S
FacesS(c, j) ==
    LET ds == Invaded(c, j[1], j[2])
    IN  Boundary(c, j[1], j[2]) = (IF j[2] = "fwd" THEN First(ds) ELSE Last(ds))

\* Where Migration applies: the duplex holds S and further domains
MigrationSites(c) == {j \in Junctions(c) : FacesS(c, j) /\ Len(Invaded(c, j[1], j[2])) >= 2}

\* Where Displacement applies: the duplex is exactly [S]
DisplacementSites(c) == {j \in Junctions(c) : Invaded(c, j[1], j[2]) = <<Boundary(c, j[1], j[2])>>}

\* c after the boundary at junction j moved by one domain: S leaves the
\* invading overhang and the far duplex, and joins the near duplex and the
\* overhang of the same strand on the far gate.
MigratedAt(c, j) ==
    LET i == j[1]
        a == c.gates[i]
        b == c.gates[i + 1]
        upper == c.conns[i] = LowerConn
        S == Boundary(c, i, j[2])
    IN  Render(
        IF j[2] = "fwd"
        THEN [c EXCEPT !.gates[i] = IF upper THEN [a EXCEPT !.ds = @ \o <<S>>, !.ru = Tail(@)]
                                    ELSE [a EXCEPT !.ds = @ \o <<S>>, !.rl = Tail(@)],
                       !.gates[i + 1] = IF upper THEN [b EXCEPT !.ds = Tail(@), !.lu = @ \o <<S>>]
                                        ELSE [b EXCEPT !.ds = Tail(@), !.ll = @ \o <<S>>]]
        ELSE [c EXCEPT !.gates[i] = IF upper THEN [a EXCEPT !.ds = Front(@), !.ru = <<S>> \o @]
                                    ELSE [a EXCEPT !.ds = Front(@), !.rl = <<S>> \o @],
                       !.gates[i + 1] = IF upper THEN [b EXCEPT !.ds = <<S>> \o @, !.lu = Front(@)]
                                        ELSE [b EXCEPT !.ds = <<S>> \o @, !.ll = Front(@)]])

\* C8: Migration shifts a duplex boundary by one domain: for two adjacent
\* gates where the overhang of one starts (ends) with S and the duplex of the
\* other starts (ends) with S and holds at least two domains, MigrationRule
\* yields the complex with S moved into the near duplex and out of the far
\* one, onto the far gate's overhang of the same strand.
C8_Migration ==
    rule = "migration" =>
        \A j \in MigrationSites(cx) : MigratedAt(cx, j) \in Products(res)

\* C9: Migration is reversible: Migration applied to any product of
\* Migration on k yields a reaction whose product is k, tidied.
C9_MigrationReversible ==
    rule = "migration" =>
        \A p \in Products(res) : tidy(k) \in Products(MigrationRule(p))

\* The place in Render(c) where the duplex of gate i ends, counted from 0
DuplexEnd(c, i) ==
    Len(Render(Complex(SubSeq(c.gates, 1, i - 1), SubSeq(c.conns, 1, i - 2)))) +
    (IF i > 1 THEN Len(c.conns[i - 1]) ELSE 0) +
    Len(Lower(c.gates[i].ll)) + Len(Upper(c.gates[i].lu)) + Len(Duplex(c.gates[i].ds))

\* The junctions of c a match of a rule lies at
JunctionsAt(c, f) ==
    {j \in Junctions(c) :
        j[2] = f[1] /\ c.conns[j[1]] = f[2] /\ DuplexEnd(c, j[1]) = f[3]}

\* C10: Migration and Displacement are mutually exclusive at a site: where
\* the boundary domain S of an overhang faces an adjacent duplex, Migration
\* yields a reaction only when that duplex holds S and further domains,
\* Displacement only when it is exactly [S], and never both.
C10_Exclusive ==
    /\ rule = "migration" =>
          \A f \in migration_matches(k) :
              /\ JunctionsAt(cx, f) \cap MigrationSites(cx) # {}
              /\ f \notin displacement_matches(k)
    /\ rule = "displacement" =>
          \A f \in displacement_matches(k) :
              /\ JunctionsAt(cx, f) \cap DisplacementSites(cx) # {}
              /\ f \notin migration_matches(k)

\* ------------------------------------------------------------------------
\* Displacement
\* ------------------------------------------------------------------------
DisplacementDuplexes == {<<dS>>, <<dA>>}
DisplacementOverhangs == {<<>>, <<dS, dA>>, <<dA, dS>>}

\* Pairs of gates with any overhangs, and chains of three gates with
\* overhangs on one kind of strand.
DisplacementComplexes ==
    LET gs == GatesAt(1, 1, <<>>, DisplacementDuplexes, DisplacementOverhangs,
                      DisplacementOverhangs)
        pairs == {Complex(<<a, b>>, <<cn>>) : a \in gs, b \in gs, cn \in {LowerConn, UpperConn}}
    IN  {c \in pairs : Canon(c) = c} \cup
        UNION {Chains(n, DisplacementDuplexes, DisplacementOverhangs, {<<>>}) \cup
               Chains(n, DisplacementDuplexes, {<<>>}, DisplacementOverhangs) : n \in 3..MaxChain}

InitDisplacement ==
    \E c \in DisplacementComplexes :
        /\ cx = c
        /\ cl = NoComplex
        /\ k = Render(c)
        /\ l = <<>>
        /\ rule = "none"
        /\ res = Returned(<<>>)

\* DisplacementRule().novel_reactions(k) on a complex of the family
DisplaceStrand == Apply("displacement", DisplacementRule(k))

NextDisplacement == DisplaceStrand

SpecDisplacement == InitDisplacement /\ [][NextDisplacement]_vars

\* The strand displaced at junction j continues into a further gate: the
\* gate it leaves is joined on its far side by the connector of that
\* strand's own orientation.
Continues(c, j) ==
    LET f == IF j[2] = "fwd" THEN j[1] + 1 ELSE j[1] - 1
    IN  f \in DOMAIN c.conns /\ c.conns[f] # c.conns[j[1]]

\* The two products of Displacement at junction j
DisplacedAt(c, j) ==
    LET i == j[1]
        n == Len(c.gates)
        a == c.gates[i]
        b == c.gates[i + 1]
        upper == c.conns[i] = LowerConn
        S == Boundary(c, i, j[2])
        out == IF j[2] = "fwd" THEN b ELSE a
        strand == IF upper THEN out.lu \o <<S>> \o out.ru ELSE out.ll \o <<S>> \o out.rl
        grown == IF j[2] = "fwd"
                 THEN IF upper THEN [a EXCEPT !.ds = @ \o <<S>>, !.ru = Tail(@), !.rl = b.rl]
                      ELSE [a EXCEPT !.ds = @ \o <<S>>, !.rl = Tail(@), !.ru = b.ru]
                 ELSE IF upper THEN [b EXCEPT !.ds = <<S>> \o @, !.lu = Front(@), !.ll = a.ll]
                      ELSE [b EXCEPT !.ds = <<S>> \o @, !.ll = Front(@), !.lu = a.lu]
    IN  IF ~Continues(c, j)
        THEN {IF upper THEN Upper(strand) ELSE Lower(strand),
              Render(Complex(SubSeq(c.gates, 1, i - 1) \o <<grown>> \o SubSeq(c.gates, i + 2, n),
                             SubSeq(c.conns, 1, i - 1) \o SubSeq(c.conns, i + 1, n - 1)))}
        ELSE IF j[2] = "fwd"
        THEN LET far == IF upper THEN [c.gates[i + 2] EXCEPT !.lu = strand \o @]
                        ELSE [c.gates[i + 2] EXCEPT !.ll = strand \o @]
             IN  {Render(Complex(SubSeq(c.gates, 1, i - 1) \o <<grown>>, SubSeq(c.conns, 1, i - 1))),
                  Render(Complex(<<far>> \o SubSeq(c.gates, i + 3, n),
                                 SubSeq(c.conns, i + 2, n - 1)))}
        ELSE LET far == IF upper THEN [c.gates[i - 1] EXCEPT !.ru = @ \o strand]
                        ELSE [c.gates[i - 1] EXCEPT !.rl = @ \o strand]
             IN  {Render(Complex(SubSeq(c.gates, 1, i - 2) \o <<far>>, SubSeq(c.conns, 1, i - 2))),
                  Render(Complex(<<grown>> \o SubSeq(c.gates, i + 2, n),
                                 SubSeq(c.conns, i + 1, n - 1)))}

\* A reaction of r has exactly the products ps
Yields(r, ps) ==
    \E i \in DOMAIN r.out : {r.out[i][n] : n \in DOMAIN r.out[i]} = ps

\* C11: Displacement releases a free strand: where an overhang starting
\* (ending, right to left) with S faces an adjacent gate whose duplex is
\* exactly [S] and the displaced strand is not joined to a further gate,
\* DisplacementRule yields the free strand of the displaced gate's
\* overhangs around S and the remaining complex with S added to the
\* invading gate's duplex and the displaced gate's other overhangs on it.
C11_DisplacementFree ==
    rule = "displacement" =>
        \A j \in DisplacementSites(cx) :
            ~Continues(cx, j) => Yields(res, DisplacedAt(cx, j))

\* C12: Displacement of a strand that continues into another gate: where
\* the displaced gate [S] is joined on its far side by the connector of the
\* displaced strand's own orientation, the two products are the invading
\* side with its duplex extended by S and the further gates carrying the
\* displaced strand as the overhang on the joined side.
C12_DisplacementJoined ==
    rule = "displacement" =>
        \A j \in DisplacementSites(cx) :
            Continues(cx, j) => Yields(res, DisplacedAt(cx, j))

\* ------------------------------------------------------------------------
\* Leakage
\* ------------------------------------------------------------------------
MaxInvader == 2     \* domains of an invader strand drawn freely

LeakageDuplexes == {<<dS>>, <<dS, tT>>, <<tT>>, <<tT1>>}

\* The domain sequences of the invader strands: every sequence of up to
\* MaxInvader domains, and two longer ones with domains on both sides of
\* a duplex's sequence.
InvaderDomains ==
    UNION {[1..n -> {dS, dS1, tT, tT1, dA}] : n \in 1..MaxInvader} \cup
    {<<dA, dS, dB>>, <<dB, tT, dS, dA>>}

\* A gate with any overhangs, or two gates with duplex [S] and any
\* overhangs, together with an invader strand
LeakagePairs ==
    LET gates(dss) == GatesAt(1, 1, <<>>, dss, {<<>>, <<dA>>}, {<<>>, <<dB>>})
        pairs == {Complex(<<a, b>>, <<cn>>) :
                     a \in gates({<<dS>>}), b \in gates({<<dS>>}),
                     cn \in {LowerConn, UpperConn}}
        complexes == {Complex(<<g>>, <<>>) : g \in gates(LeakageDuplexes)} \cup
                     {c \in pairs : IsCanon(c)}
    IN  complexes \X ({UpperStrand(ds) : ds \in InvaderDomains} \cup
                      {LowerStrand(ds) : ds \in InvaderDomains})

InitLeakage ==
    \E pair \in LeakagePairs, swap \in BOOLEAN :
        /\ cx = IF swap THEN pair[2] ELSE pair[1]
        /\ cl = IF swap THEN pair[1] ELSE pair[2]
        /\ k = Render(cx)
        /\ l = Render(cl)
        /\ rule = "none"
        /\ res = Returned(<<>>)

\* LeakageRule().novel_reactions(k, l)
Leak == Apply("leakage", LeakageRule(k, l))

NextLeakage == Leak

SpecLeakage == InitLeakage /\ [][NextLeakage]_vars

\* ds in reverse order
Reversed(ds) == [i \in DOMAIN ds |-> ds[Len(ds) + 1 - i]]

\* Where the domain sequence D occurs in ds as a run of whole domains
Occurrences(ds, D) ==
    {i \in 1..(Len(ds) - Len(D) + 1) : SubSeq(ds, i, i + Len(D) - 1) = D}

\* The ways the strand s can invade the gate g: the strand of g that is
\* replaced (upper or not), the domains of s as given or rotated, and the
\* place of the duplex's sequence in them.
Invasions(g, s) ==
    {<<IsUpperStrand(s), StrandDoms(s), i>> : i \in Occurrences(StrandDoms(s), g.ds)} \cup
    {<<~IsUpperStrand(s), Reversed(StrandDoms(s)), i>> :
        i \in Occurrences(Reversed(StrandDoms(s)), g.ds)}

\* The two products of the invasion v of the single gate g
LeakedAt(g, v) ==
    LET before == SubSeq(v[2], 1, v[3] - 1)
        after == SubSeq(v[2], v[3] + Len(g.ds), Len(v[2]))
    IN  IF v[1]
        THEN {RenderGate([g EXCEPT !.lu = before, !.ru = after]), Upper(g.lu \o g.ds \o g.ru)}
        ELSE {RenderGate([g EXCEPT !.ll = before, !.rl = after]), Lower(g.ll \o g.ds \o g.rl)}

\* The duplex of g is a single toehold [X^]
ToeholdDuplex(g) == Len(g.ds) = 1 /\ IsToehold(g.ds[1])

\* C13: strand leakage: for a bare invader strand and a gate whose duplex
\* domain sequence D occurs in the invader, as given or after rotation, the
\* Leakage rule yields the gate with the overhangs of the invaded
\* orientation replaced by the invader's domains before and after D, and
\* the strand of the gate's previous overhangs of that orientation around D.
C13_StrandLeakage ==
    LET c == GatesOf(cx, cl)
        g == c.gates[1]
    IN  (rule = "leakage" /\ Len(c.gates) = 1 /\ ~ToeholdDuplex(g)) =>
            \A v \in Invasions(g, StrandOf(cx, cl)) : Yields(res, LeakedAt(g, v))

\* C14: Leakage never applies to a gate whose duplex is a single toehold
\* [X^]: for every invader strand the rule yields no reaction on it.
C14_NoToeholdLeak ==
    LET c == GatesOf(cx, cl)
    IN  (rule = "leakage" /\ \A i \in DOMAIN c.gates : ToeholdDuplex(c.gates[i])) =>
            res = Returned(<<>>)

\* C15: Leakage requires an exact sequence match: when the invader, as
\* given and after rotation, does not contain the duplex's domain sequence
\* of any gate as a contiguous run of whole domains, the rule yields no
\* reaction.
C15_ExactMatch ==
    LET c == GatesOf(cx, cl)
    IN  (rule = "leakage" /\
         \A i \in DOMAIN c.gates : Invasions(c.gates[i], StrandOf(cx, cl)) = {}) =>
            res = Returned(<<>>)

\* C16: Leakage does not displace a strand that continues into a
\* neighbouring gate: no reaction releases the upper strand of a gate
\* joined to a neighbour by '::', nor the lower strand of a gate joined to a
\* neighbour by ':'.
C16_NoJoinedLeak ==
    LET c == GatesOf(cx, cl)
    IN  (rule = "leakage" /\ Len(c.gates) = 2) =>
            \A i \in DOMAIN c.gates :
                LET g == c.gates[i]
                IN  IF c.conns[1] = UpperConn
                    THEN Upper(g.lu \o g.ds \o g.ru) \notin Products(res)
                    ELSE Lower(g.ll \o g.ds \o g.rl) \notin Products(res)

\* ------------------------------------------------------------------------
\* Rotation: rotate applied to a bare strand, and again to what it gave.
\* ------------------------------------------------------------------------
MaxStrand == 3      \* domains of a rotated strand

RotatedDomains == {dA, dS, dS1, tT, <<"T", "^", "*">>}

RotatedStrands ==
    UNION {UNION {{UpperStrand(ds), LowerStrand(ds)} : ds \in [1..n -> RotatedDomains]} : n \in 1..MaxStrand}

InitRotation ==
    \E s \in RotatedStrands :
        /\ cx = s
        /\ cl = NoComplex
        /\ k = Render(s)
        /\ l = <<>>
        /\ rule = "none"
        /\ res = Returned(<<>>)

\* rotate(k)
Rotate == Apply("rotate", Returned(<<<<rotate(k)>>>>))

\* rotate(rotate(k))
RotateBack ==
    /\ rule = "rotate"
    /\ rule' = "rotate_back"
    /\ res' = Returned(<<<<rotate(res.out[1][1])>>>>)
    /\ UNCHANGED <<cx, cl, k, l>>

NextRotation == Rotate \/ RotateBack

SpecRotation == InitRotation /\ [][NextRotation]_vars

\* The strand of the other orientation with the domains of s in reverse
Flipped(s) ==
    IF IsUpperStrand(s) THEN LowerStrand(Reversed(StrandDoms(s)))
    ELSE UpperStrand(Reversed(StrandDoms(s)))

\* C18: rotation flips orientation and is an involution: rotate(s) is the
\* strand of the opposite bracket type holding the domains of s, each
\* unchanged, in reverse order, and rotate(rotate(s)) is s again.
C18_RotateInvolution ==
    /\ rule = "rotate" => res.out[1][1] = Render(Flipped(cx))
    /\ rule = "rotate_back" => res.out[1][1] = k

\* A strand of three different domains has been rotated twice
C18_Witness ==
    /\ rule = "rotate_back"
    /\ Len(StrandDoms(cx)) = 3
    /\ StrandDoms(cx)[1] # StrandDoms(cx)[3]
    /\ res.out[1][1] = k

\* ------------------------------------------------------------------------
\* Initial-state keys that are not notation: a complex written with one
\* bracket left out or with one closing bracket of the wrong type, next to
\* the complexes written correctly.
\* ------------------------------------------------------------------------
Opening == {"<", "{", "["}
Closing == {">", "}", "]"}
CloserOf(c) == CASE c = "<" -> ">" [] c = "{" -> "}" [] c = "[" -> "]"
WrongCloser(c) == CASE c = ">" -> "}" [] c = "}" -> "]" [] c = "]" -> ">"

\* s without its i-th character
Dropped(s, i) == SubSeq(s, 1, i - 1) \o SubSeq(s, i + 1, Len(s))

\* s with its i-th character, a closing bracket, replaced by another one
Mismatched(s, i) == [s EXCEPT ![i] = WrongCloser(s[i])]

\* The ways of writing s wrongly
Damaged(s) ==
    {Dropped(s, i) : i \in {j \in DOMAIN s : s[j] \in Opening \cup Closing}} \cup
    {Mismatched(s, i) : i \in {j \in DOMAIN s : s[j] \in Closing}}

\* Every bracket of s is closed by the bracket of its type before another
\* one opens; open is the closing bracket awaited, "" outside brackets.
RECURSIVE BalancedFrom(_, _)
BalancedFrom(s, open) ==
    IF s = <<>> THEN open = ""
    ELSE LET c == Head(s)
         IN  IF c \in Opening THEN open = "" /\ BalancedFrom(Tail(s), CloserOf(c))
             ELSE IF c \in Closing THEN open = c /\ BalancedFrom(Tail(s), "")
             ELSE BalancedFrom(Tail(s), open)

Balanced(s) == BalancedFrom(s, "")

KeyComplexes ==
    UNION {{Complex(gs, cs) : gs \in LooseGates(n), cs \in [1..(n - 1) -> {LowerConn, UpperConn}]} :
              n \in 1..MaxGates}

InitKeys ==
    \E c \in KeyComplexes :
      \E key \in {Render(c)} \cup Damaged(Render(c)) :
        /\ cx = c
        /\ cl = NoComplex
        /\ k = key
        /\ l = <<>>
        /\ rule = "none"
        /\ res = Returned(<<>>)

NextKeys == Standardise

SpecKeys == InitKeys /\ [][NextKeys]_vars

\* C19: malformed notation is rejected: an initial-state key with
\* unbalanced or mismatched brackets is refused with a MalformedNotation
\* error when it is canonicalised, and no species comes of it.
C19_MalformedRejected ==
    (rule = "standardise" /\ ~Balanced(k)) =>
        (res.err = "MalformedNotation" /\ res.out = <<>>)

\* ------------------------------------------------------------------------
\* Products as species: what a rule yields becomes a key of the state.
\* ------------------------------------------------------------------------
\* s is what standardise makes of it
IsStandard(s) == standardise(s) = s

\* C20: every complex a rule produces is canonical when it is exposed: for
\* canonical reactants, each product p of each reaction yielded satisfies
\* standardise(p) = p.
C20_ProductsCanonical ==
    (rule # "none" /\ IsStandard(k) /\ IsStandard(l)) =>
        \A p \in Products(res) : IsStandard(p)

\* ------------------------------------------------------------------------
\* Connector ownership: '::' is where an upper strand passes from one gate
\* to the next, ':' is where a lower strand does.
\* ------------------------------------------------------------------------
\* Where the connectors of p start
ConnectorStarts(p) == {i \in DOMAIN p : p[i] = ":" /\ (i = 1 \/ p[i - 1] # ":")}

\* The last position of the connector that starts at i
RECURSIVE ConnectorEnd(_, _)
ConnectorEnd(p, i) == IF i < Len(p) /\ p[i + 1] = ":" THEN ConnectorEnd(p, i + 1) ELSE i

\* What is written before position i back to the previous connector, and
\* after position j up to the next connector
RECURSIVE UnitBefore(_, _)
UnitBefore(p, i) == IF i = 1 \/ p[i - 1] = ":" THEN <<>> ELSE UnitBefore(p, i - 1) \o <<p[i - 1]>>
RECURSIVE UnitAfter(_, _)
UnitAfter(p, j) == IF j = Len(p) \/ p[j + 1] = ":" THEN <<>> ELSE <<p[j + 1]>> \o UnitAfter(p, j + 1)

\* The unit u holds an upper strand (a duplex or an upper overhang), a
\* lower strand (a duplex or a lower overhang)
HasUpperStrand(u) == \E n \in DOMAIN u : u[n] \in {"[", "<"}
HasLowerStrand(u) == \E n \in DOMAIN u : u[n] \in {"[", "{"}

\* Every connector of p joins two units that hold a strand of its kind
OwnsConnectors(p) ==
    \A i \in ConnectorStarts(p) :
        LET j == ConnectorEnd(p, i)
            left == UnitBefore(p, i)
            right == UnitAfter(p, j)
        IN  \/ j = i /\ HasLowerStrand(left) /\ HasLowerStrand(right)
            \/ j = i + 1 /\ HasUpperStrand(left) /\ HasUpperStrand(right)

\* C17: rule locality: in every product of every reaction a rule yields, an
\* upper strand passes from gate to gate only at '::' and a lower strand
\* only at ':'.
C17_RuleLocality ==
    rule # "none" => \A p \in Products(res) : OwnsConnectors(p)

\* ------------------------------------------------------------------------
\* Spellings of one structure.  A loosely written key (InitCanon) stands
\* for the structure in which every lone strand is part of the strand it
\* is joined to and every overhang is on one side of its connector.
\* ------------------------------------------------------------------------
IsUpperJoint(j) == j \in {UpperConn, UpperConn \o LoneUpper \o UpperConn}
HasLone(j) == j \notin {UpperConn, LowerConn}

\* The structure a loose key is a spelling of: a lone strand goes to the
\* gate after it, the last one to the gate before it.
Merged(key) ==
    LET n == Len(key.gates)
        g(i) == key.gates[i]
        lone(i, upper) ==
            (IF i = 1 /\ key.pre = (IF upper THEN LoneUpper \o UpperConn ELSE LoneLower \o LowerConn)
             THEN <<dC>> ELSE <<>>) \o
            (IF i > 1 /\ HasLone(key.conns[i - 1]) /\ IsUpperJoint(key.conns[i - 1]) = upper
             THEN <<dC>> ELSE <<>>)
        last(i, upper) ==
            IF i = n /\ key.suf = (IF upper THEN UpperConn \o LoneUpper ELSE LowerConn \o LoneLower)
            THEN <<dC>> ELSE <<>>
    IN  Complex([i \in 1..n |->
                   Gate(lone(i, FALSE) \o g(i).ll, lone(i, TRUE) \o g(i).lu, g(i).ds,
                        g(i).ru \o last(i, TRUE), g(i).rl \o last(i, FALSE))],
                [i \in 1..(n - 1) |-> IF IsUpperJoint(key.conns[i]) THEN UpperConn ELSE LowerConn])

\* The one key of the structure
KeyOf(key) == Render(Canon(Merged(key)))

C22_NeverRaises ==
    rule # "none" => res.err = "none"

\* ------------------------------------------------------------------------
\* Binding of toeholds with and without the complement marker, on either
\* orientation.
\* ------------------------------------------------------------------------
MarkedToeholds == {tT, Comp(tT), tX, Comp(tX)}

\* Strands <a x b> and {a x b}, and gates [D] with one toehold overhang
ToeholdStrands(make(_)) ==
    {make(a \o <<x>> \o b) : a \in {<<>>, <<dA>>}, b \in {<<>>, <<dB>>}, x \in MarkedToeholds}

MarkedGates ==
    {Complex(<<Gate(ll, lu, <<dD>>, ru, rl)>>, <<>>) :
        ll \in {<<dA>>}, ru \in {<<>>}, rl \in {<<>>, <<dB>>},
        lu \in {<<x>> : x \in MarkedToeholds}} \cup
    {Complex(<<Gate(ll, lu, <<dD>>, ru, rl)>>, <<>>) :
        ll \in {<<>>, <<dA>>}, lu \in {<<>>}, ru \in {<<dB>>},
        rl \in {<<x>> : x \in MarkedToeholds}}

ToeholdPairs ==
    (ToeholdStrands(UpperStrand) \X ToeholdStrands(LowerStrand)) \cup
    (MarkedGates \X {UpperStrand(<<x>>) : x \in MarkedToeholds}) \cup
    (MarkedGates \X {LowerStrand(<<x>>) : x \in MarkedToeholds})

InitToeholds ==
    \E pair \in ToeholdPairs, swap \in BOOLEAN :
        /\ cx = IF swap THEN pair[2] ELSE pair[1]
        /\ cl = IF swap THEN pair[1] ELSE pair[2]
        /\ k = Render(cx)
        /\ l = Render(cl)
        /\ rule = "none"
        /\ res = Returned(<<>>)

NextToeholds == Bind

SpecToeholds == InitToeholds /\ [][NextToeholds]_vars

\* A toehold domain X^ or X^*, its marker and its label
IsMarked(d) == d # <<>> /\ d[Len(d)] = "*"
IsToeholdDomain(d) == IsToehold(d) \/ (IsMarked(d) /\ IsToehold(Front(d)))
LabelOf(d) == IF IsMarked(d) THEN Front(Front(d)) ELSE Front(d)

\* The toehold occurrences on the overhangs of c
ExposedToeholds(c) ==
    UNION {{o[n] : n \in {m \in DOMAIN o : IsToeholdDomain(o[m])}} :
              o \in UNION {{c.gates[i].ll, c.gates[i].lu, c.gates[i].ru, c.gates[i].rl} :
                              i \in DOMAIN c.gates}}

\* Labels match and exactly one carries '*'
Complementary(d, e) == LabelOf(d) = LabelOf(e) /\ IsMarked(d) # IsMarked(e)

\* C23: binding fires only on complementary toeholds: when no toehold of
\* one reactant and toehold of the other have equal labels with exactly
\* one of them carrying '*', BindingRule yields no reaction.
C23_OnlyComplementary ==
    (rule = "binding" /\
     ~\E d \in ExposedToeholds(cx), e \in ExposedToeholds(cl) : Complementary(d, e)) =>
        res.out = <<>>

\* ------------------------------------------------------------------------
\* Enumeration of binding sites.
\* ------------------------------------------------------------------------
\* The pairs (toehold occurrence, complementary occurrence) of two
\* reactants of which at least one is a bare strand
BindingSites(c1, c2) ==
    IF IsStrand(c1) /\ IsStrand(c2)
    THEN IF IsUpperStrand(c1) = IsUpperStrand(c2) THEN {}
         ELSE Sites(StrandDoms(IF IsUpperStrand(c1) THEN c1 ELSE c2),
                    StrandDoms(IF IsUpperStrand(c1) THEN c2 ELSE c1))
    ELSE GateSites(GatesOf(c1, c2), StrandOf(c1, c2))

\* C24: Binding enumerates every site exactly once: BindingRule yields as
\* many reactions as there are pairs of an exposed toehold X^ of one
\* reactant and an exposed complement X^* of the other, one per pair.
C24_EverySiteOnce ==
    (rule = "binding" /\ (IsStrand(cx) \/ IsStrand(cl))) =>
        Len(res.out) = Cardinality(BindingSites(cx, cl))

\* ------------------------------------------------------------------------
\* Lone gates: merge_gates applied to a tidy key with lone strands.
\* ------------------------------------------------------------------------
InitMerge == InitCanon /\ cx.style = "plain"

\* merge_gates(k)
MergeGates == Apply("merge_gates", Returned(<<<<merge_gates(k)>>>>))

NextMerge == MergeGates

SpecMerge == InitMerge /\ [][NextMerge]_vars

\* What is written between the connectors of p
UnitsOf(p) ==
    IF ConnectorStarts(p) = {} THEN {p}
    ELSE UNION {{UnitBefore(p, i), UnitAfter(p, ConnectorEnd(p, i))} : i \in ConnectorStarts(p)}

\* No gate of p is a single strand
NoLoneGate(p) == \A u \in UnitsOf(p) : \E n \in DOMAIN u : u[n] = "["

InitCalls ==
    \/ InitCanon
    \/ InitKeys

Tidy == Apply("tidy", Returned(<<<<tidy(k)>>>>))

\* merge_gates finds a lone gate and calls itself on the rewritten string
MergeRecurse ==
    /\ rule \in {"tidy", "merge_gates"}
    /\ merge_gates_call(res.out[1][1]).again
    /\ rule' = "merge_gates"
    /\ res' = Returned(<<<<merge_gates_call(res.out[1][1]).sys>>>>)
    /\ UNCHANGED <<cx, cl, k, l>>

\* merge_gates finds none and returns; reformat is entered
MergeReturn ==
    /\ rule \in {"tidy", "merge_gates"}
    /\ ~merge_gates_call(res.out[1][1]).again
    /\ rule' = "reformat"
    /\ UNCHANGED <<cx, cl, k, l, res>>

ReformatRecurse ==
    /\ rule = "reformat"
    /\ reformat_call(res.out[1][1]).again
    /\ res' = Returned(<<<<reformat_call(res.out[1][1]).sys>>>>)
    /\ UNCHANGED <<cx, cl, k, l, rule>>

\* reformat finds no pattern and standardise returns
ReformatReturn ==
    /\ rule = "reformat"
    /\ ~reformat_call(res.out[1][1]).again
    /\ rule' = "standardise"
    /\ UNCHANGED <<cx, cl, k, l, res>>

NextCalls == Tidy \/ MergeRecurse \/ MergeReturn \/ ReformatRecurse \/ ReformatReturn

SpecCalls == InitCalls /\ [][NextCalls]_vars

\* The sum of the places of the connectors of sys.  A call of merge_gates
\* takes a connector away and moves no other to the right; a call of
\* reformat moves an overhang from the left of a connector to its right.
RECURSIVE SumOf(_)
SumOf(S) == IF S = {} THEN 0 ELSE LET i == CHOOSE j \in S : TRUE IN i + SumOf(S \ {i})
Weight(sys) == SumOf(ConnectorStarts(sys))

\* C26: canonicalisation terminates: every recursive call of merge_gates
\* and of reformat is made on a string of smaller weight, a natural
\* number, so no sequence of rewrites goes on for ever or comes back to a
\* string it has left, and standardise returns.
C26_Terminates ==
    [][(MergeRecurse \/ ReformatRecurse) => Weight(res'.out[1][1]) < Weight(res.out[1][1])]_vars

\* standardise has returned for a key that needed calls of both
\* merge_gates and reformat, with the value of standardise(k).
C26_Witness ==
    /\ rule = "standardise"
    /\ merge_gates(tidy(k)) # tidy(k)
    /\ res.out[1][1] # merge_gates(tidy(k))
    /\ res.out[1][1] = standardise(k)

\* ------------------------------------------------------------------------
\* Conservation of domains.  The domains written in a string, counted by
\* the strand they lie on: those of an upper overhang on the upper strand,
\* those of a lower overhang on the lower strand, those of a duplex on the
\* upper strand and, complemented, on the lower strand.
\* ------------------------------------------------------------------------
NoDomains == [upper |-> EmptyBag, lower |-> EmptyBag]

\* acc with the domain word read inside a bracket of the given kind
Counted(kind, word, acc) ==
    IF word = <<>> THEN acc
    ELSE CASE kind = "<" -> [acc EXCEPT !.upper = @ (+) SetToBag({word})]
           [] kind = "{" -> [acc EXCEPT !.lower = @ (+) SetToBag({word})]
           [] kind = "[" -> [upper |-> acc.upper (+) SetToBag({word}),
                             lower |-> acc.lower (+) SetToBag({Comp(word)})]
           [] OTHER -> acc

RECURSIVE DomainsFrom(_, _, _, _)
DomainsFrom(p, kind, word, acc) ==
    IF p = <<>> THEN Counted(kind, word, acc)
    ELSE LET c == Head(p)
         IN  IF c \in Opening THEN DomainsFrom(Tail(p), c, <<>>, Counted(kind, word, acc))
             ELSE IF c \in Closing THEN DomainsFrom(Tail(p), "", <<>>, Counted(kind, word, acc))
             ELSE IF c \in {" ", ":"} THEN DomainsFrom(Tail(p), kind, <<>>, Counted(kind, word, acc))
             ELSE DomainsFrom(Tail(p), kind, word \o <<c>>, acc)

\* The domains of the strings of the sequence ps together
RECURSIVE DomainsOf(_, _)
DomainsOf(ps, acc) ==
    IF ps = <<>> THEN acc ELSE DomainsOf(Tail(ps), DomainsFrom(Head(ps), "", <<>>, acc))

\* C27: every rule conserves domains: in every reaction yielded, the
\* domain occurrences on upper strands and those on lower strands of the
\* products are exactly those of the reactants, none dropped, duplicated
\* or altered.
C27_DomainsConserved ==
    rule # "none" =>
        \A i \in DOMAIN res.out : DomainsOf(res.out[i], NoDomains) = DomainsOf(<<k, l>>, NoDomains)

\* ------------------------------------------------------------------------
\* The grammar of the notation (re_gate: lower? upper? double upper? lower?)
\* ------------------------------------------------------------------------
\* u is a run of bracket pairs, each closed by its own bracket before the
\* next opens, none empty, with nothing written between them; open is the
\* closing bracket awaited, filled says the open pair holds a domain.
RECURSIVE BracketPairs(_, _, _)
BracketPairs(u, open, filled) ==
    IF u = <<>> THEN open = ""
    ELSE LET c == Head(u)
         IN  IF c \in Opening THEN open = "" /\ BracketPairs(Tail(u), CloserOf(c), FALSE)
             ELSE IF c \in Closing THEN open = c /\ filled /\ BracketPairs(Tail(u), "", FALSE)
             ELSE open # "" /\ BracketPairs(Tail(u), open, filled \/ c # " ")

\* The opening brackets of u in their order
KindsOf(u) == SelectSeq(u, LAMBDA c : c \in Opening)

StrandKinds == {<<"<">>, <<"{">>}
GateKinds ==
    {ll \o lu \o <<"[">> \o ru \o rl :
        ll \in {<<>>, <<"{">>}, lu \in {<<>>, <<"<">>}, ru \in {<<>>, <<"<">>}, rl \in {<<>>, <<"{">>}}

IsGate(u) == BracketPairs(u, "", FALSE) /\ KindsOf(u) \in GateKinds
IsBareStrand(u) == BracketPairs(u, "", FALSE) /\ KindsOf(u) \in StrandKinds

\* p is a bare strand or gate (("::" | ":") gate)*
WellFormed(p) ==
    \/ IsBareStrand(p)
    \/ /\ \A i \in ConnectorStarts(p) : ConnectorEnd(p, i) <= i + 1
       /\ \A u \in UnitsOf(p) : IsGate(u)

\* C28: every product is well-formed: each product of each reaction a rule
\* yields is a single bare strand, or gates joined by '::' or ':' with each
\* gate written lower? upper? duplex upper? lower?, brackets balanced, no
\* bracket pair empty, no two overhangs of one orientation side by side
\* and no connector left dangling.
C28_WellFormed ==
    rule # "none" => \A p \in Products(res) : WellFormed(p)

\* ------------------------------------------------------------------------
\* Labels of more than one character.
\* ------------------------------------------------------------------------
\* The domains on the overhangs of c, and those in its duplexes
OverhangDomains(c) ==
    UNION {{o[n] : n \in DOMAIN o} :
              o \in UNION {{c.gates[i].ll, c.gates[i].lu, c.gates[i].ru, c.gates[i].rl} :
                              i \in DOMAIN c.gates}}
DuplexDomains(c) == UNION {{c.gates[i].ds[n] : n \in DOMAIN c.gates[i].ds} : i \in DOMAIN c.gates}

\* C29: rules compare whole labels: when no domain on an overhang of the
\* complex is a domain of one of its duplexes (S against [S1] is no
\* match), neither Migration nor Displacement yields a reaction.
C29_WholeLabels ==
    (rule \in {"migration", "displacement"} /\ OverhangDomains(cx) \cap DuplexDomains(cx) = {}) =>
        res.out = <<>>

\* ------------------------------------------------------------------------
\* The initial state: a dict from raw keys to copy counts, rebuilt with
\* every key standardised (dsd.py 549).  cx holds the items of the raw
\* dict in their order, res.out the dict that is built.
\* ------------------------------------------------------------------------
MaxCopies == 2      \* copies of a species in the initial state

\* One gate with or without upper overhangs, written in each style
RawKeys ==
    {Styled(style, RenderGate(Gate(<<>>, lu, <<dB>>, ru, <<>>))) :
        style \in Styles, lu \in Overhangs, ru \in Overhangs}

InitState ==
    \E key1 \in RawKeys, key2 \in RawKeys, n1 \in 1..MaxCopies, n2 \in 1..MaxCopies :
        /\ key1 # key2
        /\ cx = <<[key |-> key1, value |-> n1], [key |-> key2, value |-> n2]>>
        /\ cl = NoComplex
        /\ k = key1
        /\ l = key2
        /\ rule = "none"
        /\ res = Returned(<<>>)

\* {standardise(key): value for key, value in items}: an item put in later
\* under the same key replaces the earlier one
DictOf(items) ==
    LET keys == [n \in DOMAIN items |-> standardise(items[n].key)]
        last(key) == CHOOSE n \in DOMAIN items :
                        /\ keys[n] = key
                        /\ \A m \in DOMAIN items : keys[m] = key => m <= n
    IN  [key \in {keys[n] : n \in DOMAIN items} |-> items[last(key)].value]

\* initial_state = {standardise(key): value for key, value in initial_state.items()}
Canonicalise == Apply("initial_state", Returned(DictOf(cx)))

NextState == Canonicalise

SpecState == InitState /\ [][NextState]_vars

\* The copies the items hold of the species written key when standardised
RECURSIVE CopiesOf(_, _)
CopiesOf(items, key) ==
    IF items = <<>> THEN 0
    ELSE (IF IsStandard(key) /\ standardise(Head(items).key) = key THEN Head(items).value ELSE 0) +
         CopiesOf(Tail(items), key)

\* C30: canonicalising the initial state preserves populations: the count
\* of each canonical species is the sum of the counts of the raw keys that
\* canonicalise to it.
C30_PopulationsPreserved ==
    rule = "initial_state" =>
        \A key \in DOMAIN res.out : res.out[key] = CopiesOf(cx, key)

====
